---- MODULE Spec2Model ----
(***************************************************************************)
(* HarmonyDesk native core: the session object (RustDeskConnection,        *)
(* rustdesk/mod.rs) and the session registry (CoreManager, core.rs).       *)
(*                                                                         *)
(* Every await of the Rust code is a step boundary.  A field of a session  *)
(* sits behind its own tokio Mutex, so each field write is one step.       *)
(***************************************************************************)
EXTENDS Integers, Sequences, FiniteSets, TLC

(* ---------------------------------------------------------------- bounds *)
NumTasks == 2
NumIds == 2
MaxSessions == 2

Tasks == 1..NumTasks
Ids == 1..NumIds
Objs == 1..MaxSessions

NoTask == 0
NoObj == 0

VARIABLES
    \* the RustDeskConnection objects that exist, and their fields
    live,
    sess,
    spc,
    sres,
    last_call,
    punch,
    reached,
    config,
    \* CoreManager
    connections,
    video_streams,
    conns_guard,
    streams_guard,
    conn_guard,
    \* one record per caller of the CoreManager API
    pc,
    op,
    desk_id,
    conn,
    stream,
    todo,
    result,
    pre,
    undisturbed,
    teardown,
    sends,
    \* protocol.rs: SecureHandshake.shared_secret, IdServerClient.socket, and
    \* the protocol call that returned last with what it sent and received
    shared_secret,
    id_socket,
    pcall,
    \* lib.rs: the CORE_MANAGER slot, the entry point the host is in, the
    \* session the input entry picked, what the last entry returned, the
    \* ServerConfig of the CoreManager and the one the host set last
    manager,
    entry,
    first,
    status,
    server_config,
    last_set,
    \* protocol.rs: the Packet handed to serialize, the bytes it gave or the
    \* bytes that came off the wire, and what deserialize made of them
    packet,
    data,
    decoded,
    \* video.rs: whether the build checks arithmetic overflow, the H264Decoder,
    \* its call that returned last, and what it did since it was created
    overflow_checks,
    decoder,
    dcall,
    dhist,
    \* video.rs: the FrameBuffer and its call that returned last
    buffer,
    bcall,
    pushes,
    \* log_collector.rs: the LOG_COLLECTOR, the clock its entries are stamped
    \* with, the log-reading entry that returned last, and the reason of the
    \* failed connect that nothing has cleared
    collector,
    clock,
    lcall,
    recorded,
    \* lib.rs called from several host threads: the thread that holds the
    \* CORE_MANAGER guard and the entry point each thread is in
    manager_guard,
    host,
    \* protocol.rs: the channel of a VideoStreamReceiver, its handle_packet
    \* call that returned last, and the number of operations on the channel
    channel,
    hcall,
    handled

sessVars == <<live, sess, spc, sres, last_call, punch, reached, config>>
coreVars == <<connections, video_streams, conns_guard, streams_guard, conn_guard>>
taskVars == <<pc, op, desk_id, conn, stream, todo, result, pre, undisturbed, teardown, sends>>
protoVars == <<shared_secret, id_socket, pcall>>
libVars == <<manager, entry, first, status, server_config, last_set>>
codecVars == <<packet, data, decoded>>
videoVars == <<overflow_checks, decoder, dcall, dhist>>
bufferVars == <<buffer, bcall, pushes>>
logVars == <<collector, clock, lcall, recorded>>
hostVars == <<manager_guard, host>>
receiverVars == <<channel, hcall, handled>>
pureVars == <<codecVars, videoVars, bufferVars, logVars, hostVars, receiverVars>>
extVars == <<protoVars, libVars, pureVars>>
vars == <<live, sess, spc, sres, last_call, punch, reached, config,
          connections, video_streams, conns_guard, streams_guard, conn_guard,
          pc, op, desk_id, conn, stream, todo, result, pre, undisturbed, teardown, sends,
          shared_secret, id_socket, pcall,
          manager, entry, first, status, server_config, last_set,
          packet, data, decoded,
          overflow_checks, decoder, dcall, dhist,
          buffer, bcall, pushes,
          collector, clock, lcall, recorded,
          manager_guard, host, channel, hcall, handled>>

(* ------------------------------------------------ rustdesk/mod.rs: types *)
ConnectionState == {"Disconnected", "Connecting", "Connected", "Failed"}

\* RustDeskConnection::new: every Option field is None, state Disconnected
NewConnection ==
    [state |-> "Disconnected", socket |-> "None", peer_addr |-> "None",
     input_sender |-> "None", video_receiver |-> "None"]

Ok == [ok |-> TRUE, phase |-> "", err |-> ""]
Err(phase, e) == [ok |-> FALSE, phase |-> phase, err |-> e]

\* the method that returned last on an object, and whether the one before it
\* was a disconnect as well
NoCall == [method |-> "none", again |-> FALSE]
Remember(h, m) ==
    [method |-> m, again |-> (m = "disconnect" /\ h.method = "disconnect")]

(* outcomes of the awaited operations, as RustDeskConnection sees them *)
IdConnectOutcomes == {"Ok", "HandshakeFailed"}
RequestConnectionOutcomes == {"Ok", "Io", "HandshakeFailed", "PeerNotFound", "Timeout"}
BindOutcomes == {"Ok", "Io"}
LocalAddrOutcomes == {"Ok", "Io"}
PunchHoleOutcomes == {"Ok", "Io"}
HandshakeOutcomes == {"Ok", "Io", "HandshakeFailed", "Timeout", "InvalidPacket"}
TryCloneOutcomes == {"Ok", "Io"}
SendOutcomes == {"Ok", "Io"}

\* the program points of connect and of send_* at which a network operation
\* is awaited
NetworkPc ==
    {"c_id_server", "c_request", "c_bind", "c_punch", "c_handshake", "k_send_to"}

(* ------------------------------------- RustDeskConnection::connect steps *)
\* the k-th field write of the success path of connect (lines 158-176)
ConnectWrite(k, s) ==
    CASE k = 1 -> [s EXCEPT !.socket = "Some"]
      [] k = 2 -> [s EXCEPT !.peer_addr = "Some"]
      [] k = 3 -> [s EXCEPT !.input_sender = "Some"]
      [] k = 4 -> [s EXCEPT !.video_receiver = "Some"]
      [] OTHER -> [s EXCEPT !.state = "Connected"]

\* disconnect with the socket dropped before the state is written
DisconnectWrite_socket_first(k, s) ==
    CASE k = 1 -> [s EXCEPT !.socket = "None"]
      [] k = 2 -> [s EXCEPT !.state = "Disconnected"]
      [] k = 3 -> [s EXCEPT !.peer_addr = "None"]
      [] k = 4 -> [s EXCEPT !.input_sender = "None"]
      [] OTHER -> [s EXCEPT !.video_receiver = "None"]

\* disconnect that takes the state as its cue and leaves a session that is
\* not Connected as it is
DisconnectWrite_if_connected(k, s) ==
    CASE s.state \notin {"Connected", "Disconnected"} -> s
      [] k = 1 -> [s EXCEPT !.state = "Disconnected"]
      [] k = 2 -> [s EXCEPT !.socket = "None"]
      [] k = 3 -> [s EXCEPT !.peer_addr = "None"]
      [] k = 4 -> [s EXCEPT !.input_sender = "None"]
      [] OTHER -> [s EXCEPT !.video_receiver = "None"]

\* the k-th field write of disconnect (lines 190-199)
DisconnectWrite(k, s) ==
    CASE k = 1 -> [s EXCEPT !.state = "Disconnected"]
      [] k = 2 -> [s EXCEPT !.socket = "None"]
      [] k = 3 -> [s EXCEPT !.peer_addr = "None"]
      [] k = 4 -> [s EXCEPT !.input_sender = "None"]
      [] OTHER -> [s EXCEPT !.video_receiver = "None"]

\* a method on o returns r
Leave(o, m, r) ==
    /\ spc' = [spc EXCEPT ![o] = "idle"]
    /\ sres' = [sres EXCEPT ![o] = r]
    /\ last_call' = [last_call EXCEPT ![o] = Remember(@, m)]

Goto(o, next) ==
    /\ spc' = [spc EXCEPT ![o] = next]
    /\ UNCHANGED <<sres, last_call>>

\* an aborting phase failed: the error is kept for the error branch
Abort(o, phase, e) ==
    /\ spc' = [spc EXCEPT ![o] = "c_failed"]
    /\ sres' = [sres EXCEPT ![o] = Err(phase, e)]
    /\ UNCHANGED last_call

\* the awaited operation `phase` of connect returned r
Pass(o, phase, r) == reached' = [reached EXCEPT ![o] = Append(@, <<phase, r>>)]

\* line 91
ConnSetConnecting(o) ==
    /\ spc[o] = "c_begin"
    /\ sess' = [sess EXCEPT ![o].state = "Connecting"]
    /\ Goto(o, "c_id_server")
    /\ UNCHANGED live
    /\ punch' = [punch EXCEPT ![o] = "none"]
    /\ reached' = [reached EXCEPT ![o] = <<>>]
    /\ UNCHANGED config

\* lines 95-100: IdServerClient::connect (parse, bind, associate)
ConnIdServer(o) ==
    /\ spc[o] = "c_id_server"
    /\ \E r \in IdConnectOutcomes :
          /\ Pass(o, "id_connect", r)
          /\ IF r = "Ok" THEN Goto(o, "c_request") ELSE Abort(o, "id_connect", r)
    /\ UNCHANGED <<live, sess>>
    /\ UNCHANGED <<punch, config>>

\* lines 108-113: IdServerClient::request_connection
ConnRequest(o) ==
    /\ spc[o] = "c_request"
    /\ \E r \in RequestConnectionOutcomes :
          /\ Pass(o, "request_connection", r)
          /\ IF r = "Ok" THEN Goto(o, "c_bind") ELSE Abort(o, "request_connection", r)
    /\ UNCHANGED <<live, sess>>
    /\ UNCHANGED <<punch, config>>

\* lines 125-127: UdpSocket::bind
ConnBind(o) ==
    /\ spc[o] = "c_bind"
    /\ \E r \in BindOutcomes :
          /\ Pass(o, "bind", r)
          /\ IF r = "Ok" THEN Goto(o, "c_local_addr") ELSE Abort(o, "bind", r)
    /\ UNCHANGED <<live, sess>>
    /\ UNCHANGED <<punch, config>>

\* lines 134-135: local_addr()? returns the error as it is
ConnLocalAddr(o) ==
    /\ spc[o] = "c_local_addr"
    /\ \E r \in LocalAddrOutcomes :
          /\ Pass(o, "local_addr", r)
          /\ IF r = "Ok" THEN Goto(o, "c_punch")
                         ELSE Leave(o, "connect", Err("local_addr", r))
    /\ UNCHANGED <<live, sess>>
    /\ UNCHANGED <<punch, config>>

\* a connect that gives up when punch_hole fails
ConnPunch_aborts(o) ==
    /\ spc[o] = "c_punch"
    /\ \E r \in PunchHoleOutcomes :
          /\ punch' = [punch EXCEPT ![o] = r]
          /\ Pass(o, "punch_hole", r)
          /\ UNCHANGED config
          /\ IF r = "Ok" THEN Goto(o, "c_handshake") ELSE Abort(o, "punch_hole", r)
    /\ UNCHANGED <<live, sess>>

\* lines 139-142: punch_hole; a failure is logged and connect goes on
ConnPunch(o) ==
    /\ spc[o] = "c_punch"
    /\ \E r \in PunchHoleOutcomes :
          /\ punch' = [punch EXCEPT ![o] = r]
          /\ Pass(o, "punch_hole", r)
          /\ UNCHANGED config
          /\ Goto(o, "c_handshake")
    /\ UNCHANGED <<live, sess>>

\* a connect that goes on whatever perform_handshake returned
ConnHandshake_unchecked(o) ==
    /\ spc[o] = "c_handshake"
    /\ \E r \in HandshakeOutcomes :
          /\ Pass(o, "handshake", r)
          /\ Goto(o, "c_write_1")
    /\ UNCHANGED <<live, sess>>
    /\ UNCHANGED <<punch, config>>

\* lines 146-148: SecureHandshake::perform_handshake on local_socket
ConnHandshake(o) ==
    /\ spc[o] = "c_handshake"
    /\ \E r \in HandshakeOutcomes :
          /\ Pass(o, "handshake", r)
          /\ IF r = "Ok" THEN Goto(o, "c_write_1") ELSE Abort(o, "handshake", r)
    /\ UNCHANGED <<live, sess>>
    /\ UNCHANGED <<punch, config>>

\* the error branches, lines 101-103, 114-116, 128-130, 149-151
ConnFailed(o) ==
    /\ spc[o] = "c_failed"
    /\ sess' = [sess EXCEPT ![o].state = "Failed"]
    /\ Leave(o, "connect", sres[o])
    /\ UNCHANGED live
    /\ UNCHANGED <<punch, reached, config>>

\* lines 158, 159
ConnStore(o) ==
    /\ \E k \in {1, 2} :
          /\ spc[o] = (IF k = 1 THEN "c_write_1" ELSE "c_write_2")
          /\ sess' = [sess EXCEPT ![o] = ConnectWrite(k, @)]
          /\ Goto(o, IF k = 1 THEN "c_write_2" ELSE "c_try_clone")
    /\ UNCHANGED live
    /\ UNCHANGED <<punch, reached, config>>

\* lines 165-166: try_clone()? returns the error as it is
ConnTryClone(o) ==
    /\ spc[o] = "c_try_clone"
    /\ \E r \in TryCloneOutcomes :
          /\ Pass(o, "try_clone", r)
          /\ IF r = "Ok" THEN Goto(o, "c_write_3")
                         ELSE Leave(o, "connect", Err("try_clone", r))
    /\ UNCHANGED <<live, sess>>
    /\ UNCHANGED <<punch, config>>

\* lines 169, 173
ConnWire(o) ==
    /\ \E k \in {3, 4} :
          /\ spc[o] = (IF k = 3 THEN "c_write_3" ELSE "c_write_4")
          /\ sess' = [sess EXCEPT ![o] = ConnectWrite(k, @)]
          /\ Goto(o, IF k = 3 THEN "c_write_4" ELSE "c_write_5")
    /\ UNCHANGED live
    /\ UNCHANGED <<punch, reached, config>>

\* lines 176-182
ConnSetConnected(o) ==
    /\ spc[o] = "c_write_5"
    /\ sess' = [sess EXCEPT ![o] = ConnectWrite(5, @)]
    /\ Leave(o, "connect", Ok)
    /\ UNCHANGED live
    /\ UNCHANGED <<punch, reached, config>>

(* ---------------------------------- RustDeskConnection::disconnect steps *)
DiscPc == <<"d_write_1", "d_write_2", "d_write_3", "d_write_4", "d_write_5">>

\* lines 190-198, one field per step
DiscWrite(o) ==
    /\ \E k \in 1..4 :
          /\ spc[o] = DiscPc[k]
          /\ sess' = [sess EXCEPT ![o] = DisconnectWrite(k, @)]
          /\ Goto(o, DiscPc[k + 1])
    /\ UNCHANGED live
    /\ UNCHANGED <<punch, reached, config>>

\* lines 199-202
DiscReturn(o) ==
    /\ spc[o] = DiscPc[5]
    /\ sess' = [sess EXCEPT ![o] = DisconnectWrite(5, @)]
    /\ Leave(o, "disconnect", Ok)
    /\ UNCHANGED live
    /\ UNCHANGED <<punch, reached, config>>

(* ------------------------- RustDeskConnection::send_* and InputEventSender *)
InputOps == {"send_key_event", "send_mouse_move", "send_mouse_click"}

\* lines 207-208, 217-218, 227-228: the event is emitted iff the sender is set
HasSender(s) == s.input_sender = "Some"

\* send_key_event / send_mouse_move / send_mouse_click up to the send_to
\* (lines 207-209, 217-219, 227-229)
SendBegin(o, m) ==
    /\ IF HasSender(sess[o])
          THEN /\ spc' = [spc EXCEPT ![o] = "k_send_to"]
               /\ sres' = [sres EXCEPT ![o] = Err(m, "pending")]
               /\ UNCHANGED last_call
          ELSE Leave(o, m, Ok)
    /\ UNCHANGED <<live, sess>>
    /\ UNCHANGED <<punch, reached, config>>

\* InputEventSender::send_* (protocol.rs 584-620): one datagram to the peer
SendTo(o) ==
    /\ spc[o] = "k_send_to"
    /\ \E r \in SendOutcomes :
          Leave(o, sres[o].phase, IF r = "Ok" THEN Ok ELSE Err(sres[o].phase, r))
    /\ UNCHANGED <<live, sess>>
    /\ UNCHANGED <<punch, reached, config>>

\* the steps of a method in progress on o
SessionStep(o) ==
    \/ ConnSetConnecting(o)
    \/ ConnIdServer(o)
    \/ ConnRequest(o)
    \/ ConnBind(o)
    \/ ConnLocalAddr(o)
    \/ ConnPunch(o)
    \/ ConnHandshake(o)
    \/ ConnFailed(o)
    \/ ConnStore(o)
    \/ ConnTryClone(o)
    \/ ConnWire(o)
    \/ ConnSetConnected(o)
    \/ DiscWrite(o)
    \/ DiscReturn(o)
    \/ SendTo(o)

(* ------------------------------------------------- protocol.rs: packets *)
\* MessageType, #[repr(u16)], and TryFrom<u16> (lines 44-89)
MessageType == {1, 2, 3, 4, 5, 16, 17, 18, 32, 33, 34, 240, 241, 255}
HandshakeResponse == 2
ConnectionResponse == 4

\* Packet::HEADER_SIZE: a u16 type and a u32 payload length
HEADER_SIZE == 6
\* let mut buf = vec![0u8; 1024]: the receive buffer of both requests
RecvBuf == 1024

\* the datagrams a peer may put on the wire: the type code and the declared
\* payload length of the header (when the datagram is long enough to hold
\* one), the number of bytes of the datagram, and the byte at offset 6
TypeCodes == {1, 2, 4, 7, 241}
DeclaredLens == {0, 1, 2, 1018, 1019}
WireSizes == {0, 5, 6, 7, 8, 1024, 1025}
Bytes == {0, 1, 255}

NoDatagram == [type |-> 0, len |-> 0, size |-> 0, b0 |-> 0]
Datagrams ==
    {d \in [type : TypeCodes \cup {0}, len : DeclaredLens, size : WireSizes,
            b0 : Bytes] :
        /\ d.size < HEADER_SIZE => d.type = 0 /\ d.len = 0
        /\ d.size >= HEADER_SIZE => d.type # 0
        /\ d.size <= HEADER_SIZE => d.b0 = 0}

\* where a datagram comes from: the address the request was sent to, or any
\* other host that can reach the local port
Sources == {"peer", "other"}

\* what the timeout around recv / recv_from hands to the match: nothing
\* within 10 seconds, an i/o error, or a datagram and its source address
Replies ==
    {[kind |-> "elapsed", data |-> NoDatagram, from |-> "none"],
     [kind |-> "error", data |-> NoDatagram, from |-> "none"]}
        \cup {[kind |-> "datagram", data |-> d, from |-> a] :
                d \in Datagrams, a \in Sources}
\* the call returned before it received
NoReply == [kind |-> "none", data |-> NoDatagram, from |-> "none"]

\* the replies a socket yields: one connected to an address (socket.connect,
\* line 199) yields the datagrams of that address only, one that is only
\* bound (mod.rs 125) those of every source
Yields(connected) == {r \in Replies : connected => r.from # "other"}

\* recv into a buffer of cap bytes: the first cap bytes of the datagram
Recv(d, cap) == [d EXCEPT !.size = IF d.size > cap THEN cap ELSE d.size]

PErr(kind, msg) == [ok |-> FALSE, kind |-> kind, msg |-> msg]
POk == [ok |-> TRUE, kind |-> "", msg |-> ""]

\* Packet::deserialize (lines 120-136) on the bytes received
InvalidPacket == [ok |-> FALSE, msg_type |-> 0, payload_len |-> 0, payload0 |-> 0]
deserialize(d) ==
    IF d.size < HEADER_SIZE THEN InvalidPacket
    ELSE IF d.type \notin MessageType THEN InvalidPacket
    ELSE IF d.size < HEADER_SIZE + d.len THEN InvalidPacket
    ELSE [ok |-> TRUE, msg_type |-> d.type, payload_len |-> d.len,
          payload0 |-> IF d.len > 0 THEN d.b0 ELSE 0]

\* perform_handshake that takes any non-empty HandshakeResponse as success
perform_handshake_any_status(secret, send, reply) ==
    IF send # "Ok" THEN [result |-> PErr("Io", ""), shared_secret |-> secret]
    ELSE IF reply.kind = "elapsed"
        THEN [result |-> PErr("Timeout", ""), shared_secret |-> secret]
    ELSE IF reply.kind = "error"
        THEN [result |-> PErr("Io", ""), shared_secret |-> secret]
    ELSE LET response == deserialize(Recv(reply.data, RecvBuf)) IN
         IF ~response.ok
            THEN [result |-> PErr("InvalidPacket", ""), shared_secret |-> secret]
         ELSE IF response.msg_type # HandshakeResponse
            THEN [result |-> PErr("HandshakeFailed", "Invalid handshake response"),
                  shared_secret |-> secret]
         ELSE IF response.payload_len > 0
            THEN [result |-> POk, shared_secret |-> "Some"]
         ELSE [result |-> PErr("HandshakeFailed", "Authentication failed"),
               shared_secret |-> secret]

\* SecureHandshake::perform_handshake (lines 449-507): the result and the
\* shared_secret field afterwards, from the field before, the outcome of
\* send_to and what recv_from yields within the 10 seconds
perform_handshake(secret, send, reply) ==
    IF send # "Ok" THEN [result |-> PErr("Io", ""), shared_secret |-> secret]
    ELSE IF reply.kind = "elapsed"
        THEN [result |-> PErr("Timeout", ""), shared_secret |-> secret]
    ELSE IF reply.kind = "error"
        THEN [result |-> PErr("Io", ""), shared_secret |-> secret]
    ELSE LET response == deserialize(Recv(reply.data, RecvBuf)) IN
         IF ~response.ok
            THEN [result |-> PErr("InvalidPacket", ""), shared_secret |-> secret]
         ELSE IF response.msg_type # HandshakeResponse
            THEN [result |-> PErr("HandshakeFailed", "Invalid handshake response"),
                  shared_secret |-> secret]
         ELSE IF response.payload_len > 0 /\ response.payload0 = 0
            THEN [result |-> POk, shared_secret |-> "Some"]
         ELSE [result |-> PErr("HandshakeFailed", "Authentication failed"),
               shared_secret |-> secret]

\* request_connection that reads the status of any packet it can decode
request_connection_any_type(socket, send, reply) ==
    IF socket = "None" THEN PErr("HandshakeFailed", "Not connected to ID server")
    ELSE IF send # "Ok" THEN PErr("Io", "")
    ELSE IF reply.kind = "elapsed" THEN PErr("Timeout", "")
    ELSE IF reply.kind = "error" THEN PErr("Io", "")
    ELSE LET response == deserialize(Recv(reply.data, RecvBuf)) IN
         IF ~response.ok THEN PErr("HandshakeFailed", "Failed to parse response")
         ELSE IF response.payload_len = 0 THEN PErr("panic", "get_u8")
         ELSE IF response.payload0 # 0 THEN PErr("PeerNotFound", "")
         ELSE POk

\* IdServerClient::request_connection (lines 255-349): the result, from the
\* socket field, the outcome of send and what recv yields within the 10
\* seconds.  get_u8 on an empty payload (line 316) panics.  peer_addr()
\* (line 331) reads the address the socket was connected to at line 207.
request_connection(socket, send, reply) ==
    IF socket = "None" THEN PErr("HandshakeFailed", "Not connected to ID server")
    ELSE IF send # "Ok" THEN PErr("Io", "")
    ELSE IF reply.kind = "elapsed" THEN PErr("Timeout", "")
    ELSE IF reply.kind = "error" THEN PErr("Io", "")
    ELSE LET response == deserialize(Recv(reply.data, RecvBuf)) IN
         IF ~response.ok THEN PErr("HandshakeFailed", "Failed to parse response")
         ELSE IF response.msg_type # ConnectionResponse
            THEN PErr("HandshakeFailed", "Unexpected response type")
         ELSE IF response.payload_len = 0 THEN PErr("panic", "get_u8")
         ELSE IF response.payload0 # 0 THEN PErr("PeerNotFound", "")
         ELSE POk

\* the protocol call that returned last
NoPCall == [fn |-> "none", send |-> "none", reply |-> NoReply, result |-> POk]
PCall(fn, send, reply, r) == [fn |-> fn, send |-> send, reply |-> reply, result |-> r]

(* ------------------------------------------ protocol.rs: the packet codec *)
\* A byte string (Vec<u8>, &[u8]) is its explicit bytes `head` followed by
\* `pad` zero bytes, so that a payload of a mebibyte is one small value.
\* head never ends in a zero byte: equal byte strings are equal values.
RECURSIVE Norm(_)
Norm(b) ==
    IF Len(b.head) > 0 /\ b.head[Len(b.head)] = 0
        THEN Norm([head |-> SubSeq(b.head, 1, Len(b.head) - 1), pad |-> b.pad + 1])
        ELSE b
Vec(head, pad) == Norm([head |-> head, pad |-> pad])
len(v) == Len(v.head) + v.pad
\* v[i - 1] of the Rust code
at(v, i) == IF i <= Len(v.head) THEN v.head[i] ELSE 0
\* v[from .. from + n] of the Rust code, for from + n <= len(v)
slice(v, from, n) ==
    LET last == IF from + n < Len(v.head) THEN from + n ELSE Len(v.head)
        explicit == IF last > from THEN last - from ELSE 0
    IN  Vec(SubSeq(v.head, from + 1, last), n - explicit)

\* BufMut::put_u16, put_u32: big-endian
put_u16(n) == <<(n \div 256) % 256, n % 256>>
put_u32(n) == <<(n \div 16777216) % 256, (n \div 65536) % 256, (n \div 256) % 256, n % 256>>
\* put_u32 that writes the least significant byte first
put_u32_le(n) == <<n % 256, (n \div 256) % 256, (n \div 65536) % 256, (n \div 16777216) % 256>>
\* Buf::get_u16, get_u32 at the front of the buffer and behind the type
get_u16(v) == at(v, 1) * 256 + at(v, 2)
get_u32(v) == at(v, 3) * 16777216 + at(v, 4) * 65536 + at(v, 5) * 256 + at(v, 6)

NoPacket == [msg_type |-> 0, payload |-> Vec(<<>>, 0)]
Packet(msg_type, payload) == [msg_type |-> msg_type, payload |-> payload]

\* serialize that writes the payload length with the low byte first
serialize_le(p) ==
    Vec(put_u16(p.msg_type) \o put_u32_le(len(p.payload)) \o p.payload.head,
        p.payload.pad)

\* Packet::serialize (lines 111-117).  `payload.len() as u32` keeps the low
\* 32 bits, which is what put_u32 writes.
serialize(p) ==
    Vec(put_u16(p.msg_type) \o put_u32(len(p.payload)) \o p.payload.head,
        p.payload.pad)

\* what deserialize returns: Ok(Packet) or Err(ProtocolError::InvalidPacket)
NoDecoded == [call |-> "none", ok |-> FALSE, err |-> "", packet |-> NoPacket]
DecodedOk(p) == [call |-> "deserialize", ok |-> TRUE, err |-> "", packet |-> p]
DecodedErr(e) == [call |-> "deserialize", ok |-> FALSE, err |-> e, packet |-> NoPacket]

\* try_from that takes every code for a message type
try_from_any(type_val) == TRUE

\* MessageType::try_from (lines 70-92): whether the code is one of the enum
try_from(type_val) == type_val \in MessageType

\* Packet::deserialize (lines 120-136) on bytes.  usize has 64 bits on the
\* aarch64 target of build.rs, so HEADER_SIZE + len does not overflow.
deserialize_bytes(bytes) ==
    IF len(bytes) < HEADER_SIZE THEN DecodedErr("InvalidPacket")
    ELSE IF ~try_from(get_u16(bytes)) THEN DecodedErr("InvalidPacket")
    ELSE IF len(bytes) < HEADER_SIZE + get_u32(bytes) THEN DecodedErr("InvalidPacket")
    ELSE DecodedOk(Packet(get_u16(bytes), slice(bytes, HEADER_SIZE, get_u32(bytes))))

\* the byte strings the codec is applied to: every string of up to MaxHead
\* bytes of CodecBytes, alone or in front of a run of zero bytes
MaxHead == 2
CodecBytes == {0, 1, 255}
Strings(n) == UNION {[1..k -> CodecBytes] : k \in 0..n}
Pads == {0, 254, 65534, 1048574, 1048575}
Payloads == {Vec(h, pad) : h \in Strings(MaxHead), pad \in Pads}
\* the datagrams a peer may send: every string too short for a header, and
\* headers of any 16-bit code and declared lengths up to beyond a mebibyte
\* (lengths from 2^31 on are not drawn) in front of the payloads
WireTypes == {0, 1, 2, 6, 240, 255, 256, 4096, 65535}
WireLens == {0, 1, 2, 256, 65536, 1048576, 1048577, 1048578}
WireData ==
    {Vec(h, 0) : h \in Strings(HEADER_SIZE - 1)}
        \cup {Vec(put_u16(t) \o put_u32(l) \o b.head, b.pad) :
                t \in WireTypes, l \in WireLens, b \in Payloads}

(* ------------------------------------------------ video.rs: decoded frames *)
\* A u32 does not fit the integers TLC computes with, and the product of
\* two does not fit a u32: a natural number is the sequence of its base-256
\* digits, least significant first, without leading zero digits.
RECURSIVE Num(_)
Num(n) == IF n = 0 THEN <<>> ELSE <<n % 256>> \o Num(n \div 256)
RECURSIVE Strip(_)
Strip(a) ==
    IF Len(a) > 0 /\ a[Len(a)] = 0 THEN Strip(SubSeq(a, 1, Len(a) - 1)) ELSE a
RECURSIVE MulDigit(_, _, _)
MulDigit(a, d, carry) ==
    IF a = <<>> THEN Num(carry)
    ELSE LET x == a[1] * d + carry IN <<x % 256>> \o MulDigit(Tail(a), d, x \div 256)
RECURSIVE Add(_, _, _)
Add(a, b, carry) ==
    IF a = <<>> /\ b = <<>> THEN Num(carry)
    ELSE LET x == (IF a = <<>> THEN 0 ELSE a[1]) + (IF b = <<>> THEN 0 ELSE b[1]) + carry
         IN <<x % 256>> \o Add(IF a = <<>> THEN a ELSE Tail(a),
                               IF b = <<>> THEN b ELSE Tail(b), x \div 256)
RECURSIVE Mul(_, _)
Mul(a, b) ==
    IF b = <<>> THEN <<>>
    ELSE Strip(Add(MulDigit(a, b[1], 0), <<0>> \o Mul(a, Tail(b)), 0))
Half(a) ==
    Strip([i \in 1..Len(a) |->
            a[i] \div 2 + (IF i < Len(a) THEN (a[i + 1] % 2) * 128 ELSE 0)])
\* a value below n, for n <= 256
Below(a, n) == Len(a) = 0 \/ (Len(a) = 1 /\ a[1] < n)
\* u32: whether the value fits, and the low 32 bits a wrapping operation keeps
Fits32(a) == Len(a) <= 4
Low32(a) == Strip(SubSeq(a, 1, IF Len(a) < 4 THEN Len(a) ELSE 4))
U32Max == <<255, 255, 255, 255>>

PixelFormat == {"RGBA", "RGB", "YUV420P"}

\* DecodedFrame, with the length of `data` for the Vec<u8>
NoFrame == [width |-> <<>>, height |-> <<>>, len |-> <<>>, format |-> "none", timestamp |-> 0]
Made(frame) == [kind |-> "frame", frame |-> frame]
Panic == [kind |-> "panic", frame |-> NoFrame]

\* the bytes of one pixel, times two for YUV420P which is halved afterwards
Factor(format) == IF format = "RGBA" THEN 4 ELSE 3

\* DecodedFrame::new (lines 60-74).  `width * height * 4` is u32 arithmetic:
\* a build with overflow checks panics where a product does not fit, a
\* build without keeps the low 32 bits of each product.
DecodedFrame_new(width, height, format, checks) ==
    LET wh == Mul(width, height)
        product == Mul(Low32(wh), Num(Factor(format)))
        data_size == IF format = "YUV420P" THEN Half(Low32(product)) ELSE Low32(product)
    IN  IF checks /\ (~Fits32(wh) \/ ~Fits32(product)) THEN Panic
        ELSE Made([width |-> width, height |-> height, len |-> data_size,
                   format |-> format, timestamp |-> 0])

(* ------------------------------------------------- video.rs: H264Decoder *)
\* DecoderConfig without the hints; Default (lines 147-156) is 1920 x 1080
DecoderConfig(width, height) == [width |-> width, height |-> height]
\* H264Decoder::new (lines 168-174)
H264Decoder_new(cfg) == [config |-> cfg, initialized |-> FALSE, frame_count |-> 0]
DefaultDecoderConfig == DecoderConfig(Num(1920), Num(1080))

\* the decoder call that returned last: Err(NotInitialized), Ok(()),
\* Ok(Some(frame)) or Ok(frame), Ok(None), or a panic
NoDCall == [fn |-> "none", outcome |-> "Ok", frame |-> NoFrame]
DCall(fn, outcome, frame) == [fn |-> fn, outcome |-> outcome, frame |-> frame]

\* what the decoder did since H264Decoder::new: whether initialize was ever
\* called, whether a frame was ever produced, the timestamp of the frame it
\* produced last, and whether no frame was produced since new or reset
NoDHist == [initialize_called |-> FALSE, any |-> FALSE, last |-> 0, fresh |-> TRUE]

\* generate_test_pattern (lines 258-294) writes inside `data` only (lines
\* 277, 289); `width / 2 - 100` and `height / 2 - 20` (lines 284-285)
\* underflow below 200 and 40, which panics in a build with overflow checks
generate_test_pattern(width, height, checks) ==
    IF checks /\ (Below(width, 200) \/ Below(height, 40)) THEN "panic" ELSE "Ok"

\* the mock frame without the stamp of the frame counter
MockFrame_unstamped(d, checks) ==
    DecodedFrame_new(d.config.width, d.config.height, "RGBA", checks)

\* lines 205-211 and 229-232: the mock frame of a key frame, stamped with
\* the frame counter
MockFrame(d, checks) ==
    LET made == DecodedFrame_new(d.config.width, d.config.height, "RGBA", checks)
    IN  IF made.kind = "panic" THEN Panic
        ELSE IF generate_test_pattern(d.config.width, d.config.height, checks) = "panic"
            THEN Panic
        ELSE Made([made.frame EXCEPT !.timestamp = d.frame_count])

\* line 198-199: a key frame has 0x67 or 0x65 behind the 4-byte start code
is_key_frame(nal_data) ==
    Len(nal_data) > 4 /\ (nal_data[5] = 103 \/ nal_data[5] = 101)

(* ------------------------------------------------- video.rs: FrameBuffer *)
\* FrameBuffer::new (lines 313-318)
FrameBuffer_new(max_size) == [frames |-> <<>>, max_size |-> max_size]
NoBCall == [fn |-> "none", outcome |-> "Ok", frame |-> NoFrame]
BCall(fn, outcome, frame) == [fn |-> fn, outcome |-> outcome, frame |-> frame]

\* FrameBuffer::get_latest (lines 329-331): Option<&DecodedFrame>
None == [some |-> FALSE, frame |-> NoFrame]
Some(frame) == [some |-> TRUE, frame |-> frame]
get_latest(b) == IF b.frames = <<>> THEN None ELSE Some(b.frames[Len(b.frames)])

(* --------------------------------------- protocol.rs: VideoStreamReceiver *)
VideoFrameType == 16
\* mpsc::channel(100) (line 538)
capacity == 100

\* Buf::get_u32, get_u64 on the n bytes behind `from`: big-endian, as a number
get_be(v, from, n) == Strip([i \in 1..n |-> at(v, from + n + 1 - i)])

\* VideoFrame (lines 527-533)
VideoFrame(width, height, frame_data, timestamp) ==
    [width |-> width, height |-> height, data |-> frame_data, timestamp |-> timestamp]
\* the i-th frame that arrived before the calls looked at
Arrived(i) == VideoFrame(Num(2), Num(2), Vec(<<>>, 16), Num(i))

\* the frame handle_packet reads from a payload of 12 bytes or more
\* (lines 552-562)
ParseFrame(payload) ==
    VideoFrame(get_be(payload, 0, 4), get_be(payload, 4, 4),
               slice(payload, 12, len(payload) - 12), get_be(payload, 8, 8))

\* a send that waits for room instead of giving up
try_send_unbounded(ch, frame) ==
    IF ch.open THEN [ch EXCEPT !.frames = Append(@, frame)] ELSE ch

\* mpsc::Sender::try_send (line 565): the frame goes to the back of the
\* queue unless the queue holds `capacity` frames (Full) or the Receiver is
\* gone (Closed); the caller drops the error, and the frame with it
try_send(ch, frame) ==
    IF ch.open /\ Len(ch.frames) < capacity
        THEN [ch EXCEPT !.frames = Append(@, frame)]
        ELSE ch

\* VideoStreamReceiver::handle_packet (lines 543-569): what it returns and
\* the channel afterwards
handle_packet(ch, p) ==
    IF p.msg_type # VideoFrameType THEN [outcome |-> "Ok", channel |-> ch]
    ELSE IF len(p.payload) < 12 THEN [outcome |-> "InvalidPacket", channel |-> ch]
    ELSE [outcome |-> "Ok", channel |-> try_send(ch, ParseFrame(p.payload))]

\* the n-th operation on the channel was handle_packet(p)
NoHCall == [n |-> 0, packet |-> NoPacket, outcome |-> "none"]
HCall(n, p, outcome) == [n |-> n, packet |-> p, outcome |-> outcome]

(* ------------------------------------------ log_collector.rs: LogCollector *)
\* LogCollector::new (lines 48-55): max_entries
max_entries == 1000

\* a String built by format! is the sequence of its pieces; Option<String>
NoMessage == [some |-> FALSE, text |-> <<>>]
Message(text) == [some |-> TRUE, text |-> text]

LogEntry(timestamp, level, message) ==
    [timestamp |-> timestamp, level |-> level, message |-> message]

\* log that keeps every entry
log_unbounded(c, now, level, message) ==
    [c EXCEPT !.entries = Append(@, LogEntry(now, level, message))]

\* LogCollector::log (lines 58-79): push, then drop the first entry when
\* there are more than max_entries
log(c, now, level, message) ==
    LET pushed == Append(c.entries, LogEntry(now, level, message))
    IN  [c EXCEPT !.entries =
            IF Len(pushed) > max_entries THEN Tail(pushed) ELSE pushed]

\* LogCollector::set_error (lines 109-112)
set_error(c, now, message) ==
    log([c EXCEPT !.error_message = Message(message)], now, "Error", message)

\* LogCollector::set_panic (lines 120-123)
set_panic(c, now, message) ==
    log([c EXCEPT !.panic_message = Message(message)], now, "Error",
        <<"PANIC: ">> \o message)

\* LogCollector::clear (lines 131-134)
clear(c) == [c EXCEPT !.entries = <<>>, !.error_message = NoMessage]

\* get_last_error that reads the panic message first
get_last_error_panic_first(c) ==
    IF c.panic_message.some THEN c.panic_message
    ELSE IF c.error_message.some THEN c.error_message
    ELSE NoMessage

\* get_last_error (lib.rs 101-113): the error message, else the panic
\* message, else null
get_last_error(c) ==
    IF c.error_message.some THEN c.error_message
    ELSE IF c.panic_message.some THEN c.panic_message
    ELSE NoMessage

\* the collector after `logged` log_info! calls of the milliseconds up to
\* the first state, which is LogCollector::new() for 0
Filled(logged) ==
    [entries |-> [i \in 1..logged |-> LogEntry(i - logged, "Info", <<"info">>)],
     error_message |-> NoMessage,
     panic_message |-> NoMessage]

\* the entry of lib.rs that returned last to the host: Ok(value), an Error
\* thrown, and the string get_last_error gave
NoLCall == [fn |-> "none", kind |-> "Ok", value |-> 0, text |-> NoMessage]
LCall(fn, kind, value, text) == [fn |-> fn, kind |-> kind, value |-> value, text |-> text]

(* ------------------------------------------- the server configuration *)
\* ServerConfig (core.rs 10-28) and RustDeskConfig (mod.rs 20-44), without
\* the fields build_config copies through or drops
IdServerArgs == {"", "10.0.0.1:21116"}
DefaultServerConfig == [id_server |-> "None", force_relay |-> FALSE]
DefaultConfig == [id_server |-> "router.rustdesk.com:21116", force_relay |-> FALSE]

\* lib.rs 143-148: an empty string is None
FromHost(id_server, force_relay) ==
    [id_server |-> IF id_server = "" THEN "None" ELSE id_server,
     force_relay |-> force_relay]

\* CoreManager::build_config (core.rs 62-76)
build_config(settings) ==
    [id_server |-> IF settings.id_server = "None"
                      THEN DefaultConfig.id_server ELSE settings.id_server,
     force_relay |-> settings.force_relay]

\* what an entry point gave back: Ok(value), or an Error thrown to the host
NoStatus == [entry |-> "none", kind |-> "Ok", value |-> 0]
Gave(e, v) == [entry |-> e, kind |-> "Ok", value |-> v]
Threw(e) == [entry |-> e, kind |-> "Err", value |-> 0]

(* ------------------------------------------------------------ initial state *)
EmptyMap == [x \in {} |-> NoObj]
NoResult == [ok |-> TRUE, phase |-> "", err |-> "", info |-> {}]
NoStream == [connection |-> NoObj, is_running |-> FALSE]
NoPre == [connections |-> EmptyMap, video_streams |-> EmptyMap]

ProgramInit ==
    /\ live = {}
    /\ sess = [o \in Objs |-> NewConnection]
    /\ spc = [o \in Objs |-> "idle"]
    /\ sres = [o \in Objs |-> Ok]
    /\ last_call = [o \in Objs |-> NoCall]
    /\ punch = [o \in Objs |-> "none"]
    /\ reached = [o \in Objs |-> <<>>]
    /\ manager_guard = NoTask
    /\ host = [h \in Tasks |-> "none"]
    /\ config = [o \in Objs |-> DefaultConfig]
    /\ shared_secret = "None"
    /\ id_socket = "None"
    /\ pcall = NoPCall
    /\ connections = EmptyMap
    /\ video_streams = EmptyMap
    /\ conns_guard = NoTask
    /\ streams_guard = NoTask
    /\ conn_guard = [o \in Objs |-> NoTask]
    /\ pc = [t \in Tasks |-> "idle"]
    /\ op = [t \in Tasks |-> "none"]
    /\ desk_id = [t \in Tasks |-> 0]
    /\ conn = [t \in Tasks |-> NoObj]
    /\ stream = [t \in Tasks |-> NoStream]
    /\ todo = [t \in Tasks |-> {}]
    /\ result = [t \in Tasks |-> NoResult]
    /\ pre = [t \in Tasks |-> NoPre]
    /\ undisturbed = [t \in Tasks |-> TRUE]
    /\ teardown = [t \in Tasks |-> "none"]
    /\ sends = [t \in Tasks |-> 0]
    /\ manager = "None"
    /\ entry = "none"
    /\ first = 0
    /\ status = NoStatus
    /\ server_config = DefaultServerConfig
    /\ last_set = DefaultServerConfig

CodecInit == packet = NoPacket /\ data = Vec(<<>>, 0) /\ decoded = NoDecoded
VideoStart(checks, cfg) ==
    /\ overflow_checks = checks
    /\ decoder = H264Decoder_new(cfg)
    /\ dcall = NoDCall
    /\ dhist = NoDHist
BufferStart(max_size) ==
    buffer = FrameBuffer_new(max_size) /\ bcall = NoBCall /\ pushes = <<>>
LogStart(logged) ==
    /\ collector = Filled(logged)
    /\ clock = 0
    /\ lcall = NoLCall
    /\ recorded = NoMessage

ReceiverStart(queued) ==
    /\ channel = [frames |-> [i \in 1..queued |-> Arrived(i)], open |-> TRUE]
    /\ hcall = NoHCall
    /\ handled = 0

Init ==
    /\ ProgramInit /\ CodecInit /\ VideoStart(FALSE, DefaultDecoderConfig)
    /\ BufferStart(0) /\ LogStart(0) /\ ReceiverStart(0)

(* ------------------------------------------------------ core.rs: CoreManager *)
\* HashMap<String, _>
Keys(m) == DOMAIN m
\* an insert that starts the map over
Insert_alone(m, k, v) == [x \in {k} |-> v]
Insert(m, k, v) == [x \in DOMAIN m \cup {k} |-> IF x = k THEN v ELSE m[x]]
\* a lookup where the removal should be
Remove_get(m, k) == m
Remove(m, k) == [x \in DOMAIN m \ {k} |-> m[x]]

\* connect without the duplicate check
AlreadyConnected_unchecked(d) == FALSE

\* line 85: conns.contains_key(desk_id)
AlreadyConnected(d) == d \in DOMAIN connections

\* lines 86-91, 112-117, 198-203
SessionInfo(d) ==
    [id |-> d, connected |-> TRUE, screen_width |-> 1920, screen_height |-> 1080]

Success(info) == [ok |-> TRUE, phase |-> "", err |-> "", info |-> info]
Failure(e) == [ok |-> FALSE, phase |-> e.phase, err |-> e.err, info |-> {}]
Returned(r) == IF r.ok THEN Success({}) ELSE Failure(r)

\* RustDeskVideoStream::start and ::stop (mod.rs 269-289) always return Ok(())
StartOutcomes == {"Ok"}
StopOutcomes == {"Ok"}

\* the session method a CoreManager input operation forwards to (lines 163, 173, 188)
Forward(m) ==
    CASE m = "send_key" -> "send_key_event"
      [] m = "send_mouse_move" -> "send_mouse_move"
      [] OTHER -> "send_mouse_click"

CoreInputOps == {"send_key", "send_mouse_move", "send_mouse_click"}

\* the objects some Arc still points to
Refs ==
    ({connections[d] : d \in DOMAIN connections}
        \cup {video_streams[d].connection : d \in DOMAIN video_streams}
        \cup {conn[t] : t \in Tasks}
        \cup {stream[t].connection : t \in Tasks}) \ {NoObj}

\* the last Arc of an object went away: the object is dropped
Sweep(taken) ==
    /\ live' = live \cap Refs'
    /\ sess' = [o \in Objs |-> IF o \in Refs' THEN sess[o] ELSE NewConnection]
    /\ sres' = [o \in Objs |-> IF o \in Refs' \ taken THEN sres[o] ELSE Ok]
    /\ last_call' = [o \in Objs |-> IF o \in Refs' \ taken THEN last_call[o] ELSE NoCall]
    /\ punch' = [o \in Objs |-> IF o \in Refs' \ taken THEN punch[o] ELSE "none"]
    /\ reached' = [o \in Objs |-> IF o \in Refs' \ taken THEN reached[o] ELSE <<>>]
    /\ config' = [o \in Objs |-> IF o \in Refs' THEN config[o] ELSE DefaultConfig]
    /\ UNCHANGED spc

\* the address of the next allocation
Fresh == CHOOSE o \in Objs \ live : \A p \in Objs \ live : o <= p

InFlight(t) == pc[t] \notin {"idle", "done"}

\* the operations whose writes a call of m must not meet for its result to be
\* compared with the registry it found
Disturbs(m) ==
    CASE m \in {"connect", "disconnect"} -> {"connect", "disconnect", "disconnect_all"}
      [] m = "disconnect_all" -> {"connect"}
      [] OTHER -> {}

\* the operations that remove sessions
Teardowns == {"disconnect", "disconnect_all"}

\* a call of t is entered: the registry as the call found it, kept until a
\* disturbing call runs at the same time or after it, before the caller has
\* taken the result.  For a connect, teardown tells which removing calls it
\* met: none, or only the key snapshot of one disconnect_all taken while the
\* connect was in flight, or any other
Begin(t, m, d) ==
    /\ op' = [op EXCEPT ![t] = m]
    /\ desk_id' = [desk_id EXCEPT ![t] = d]
    /\ undisturbed' = [u \in Tasks |->
          IF u = t
             THEN \A v \in Tasks \ {t} : InFlight(v) => op[v] \notin Disturbs(m)
             ELSE undisturbed[u] /\ m \notin Disturbs(op[u])]
    /\ pre' = [u \in Tasks |->
          IF ~undisturbed'[u] THEN NoPre
          ELSE IF u = t
                  THEN IF Disturbs(m) = {} THEN NoPre
                       ELSE [connections |-> connections, video_streams |-> video_streams]
                  ELSE pre[u]]
    /\ teardown' = [u \in Tasks |->
          IF u = t
             THEN IF m = "connect" /\ \E v \in Tasks \ {t} :
                                         InFlight(v) /\ op[v] \in Teardowns
                     THEN "other" ELSE "none"
          ELSE IF op[u] # "connect" \/ m \notin Teardowns THEN teardown[u]
          ELSE IF m = "disconnect_all" /\ InFlight(u) /\ teardown[u] = "none"
                  THEN "snapshot" ELSE "other"]
    /\ sends' = [sends EXCEPT ![t] = 0]

\* lines 79-98: the duplicate check, then build_config and RustDeskConnection::new
CoreConnect(t, d) ==
    /\ pc[t] = "idle"
    /\ conns_guard = NoTask
    /\ Begin(t, "connect", d)
    /\ IF AlreadyConnected(d)
          THEN /\ pc' = [pc EXCEPT ![t] = "done"]
               /\ result' = [result EXCEPT ![t] = Success({SessionInfo(d)})]
               /\ UNCHANGED <<conn, sessVars>>
          ELSE /\ live # Objs
               /\ live' = live \cup {Fresh}
               /\ conn' = [conn EXCEPT ![t] = Fresh]
               /\ spc' = [spc EXCEPT ![Fresh] = "c_begin"]
               /\ pc' = [pc EXCEPT ![t] = "m_connecting"]
               /\ config' = [config EXCEPT ![Fresh] = build_config(server_config)]
               /\ UNCHANGED <<sess, sres, last_call, punch, reached, result>>
    /\ UNCHANGED <<coreVars, stream, todo>>
    /\ UNCHANGED extVars

\* lines 99-104: connection.connect().await? and the insert under the guard
CoreConnected(t) ==
    /\ pc[t] = "m_connecting"
    /\ spc[conn[t]] = "idle"
    /\ IF sres[conn[t]].ok
          THEN /\ conns_guard = NoTask
               /\ conns_guard' = t
               /\ connections' = Insert(connections, desk_id[t], conn[t])
               /\ pc' = [pc EXCEPT ![t] = "m_start_video"]
               /\ UNCHANGED <<result, conn>>
          ELSE /\ result' = [result EXCEPT ![t] = Failure(sres[conn[t]])]
               /\ pc' = [pc EXCEPT ![t] = "done"]
               /\ conn' = [conn EXCEPT ![t] = NoObj]
               /\ UNCHANGED <<conns_guard, connections>>
    /\ UNCHANGED <<video_streams, streams_guard, conn_guard>>
    /\ UNCHANGED <<op, desk_id, stream, todo, pre, undisturbed, teardown, sends>>
    /\ Sweep({conn[t]})
    /\ UNCHANGED extVars

\* lines 107-108: RustDeskVideoStream::new(connection) and start().await?
CoreStartVideo(t) ==
    /\ pc[t] = "m_start_video"
    /\ \E r \in StartOutcomes :
          IF r = "Ok"
             THEN /\ stream' = [stream EXCEPT ![t] =
                                   [connection |-> conn[t], is_running |-> TRUE]]
                  /\ pc' = [pc EXCEPT ![t] = "m_streams"]
                  /\ UNCHANGED <<result, conns_guard>>
             ELSE /\ result' = [result EXCEPT ![t] = Failure(Err("video_start", r))]
                  /\ pc' = [pc EXCEPT ![t] = "done"]
                  /\ conns_guard' = NoTask
                  /\ UNCHANGED stream
    /\ conn' = [conn EXCEPT ![t] = NoObj]
    /\ UNCHANGED <<connections, video_streams, streams_guard, conn_guard>>
    /\ UNCHANGED <<op, desk_id, todo, pre, undisturbed, teardown, sends, sessVars>>
    /\ UNCHANGED extVars

\* lines 109-118: the stream is stored and both guards are released on return
CoreInsertStream(t) ==
    /\ pc[t] = "m_streams"
    /\ streams_guard = NoTask
    /\ video_streams' = Insert(video_streams, desk_id[t], stream[t])
    /\ stream' = [stream EXCEPT ![t] = NoStream]
    /\ conns_guard' = NoTask
    /\ result' = [result EXCEPT ![t] = Success({SessionInfo(desk_id[t])})]
    /\ pc' = [pc EXCEPT ![t] = "done"]
    /\ UNCHANGED <<connections, streams_guard, conn_guard>>
    /\ UNCHANGED <<op, desk_id, conn, todo, pre, undisturbed, teardown, sends>>
    /\ Sweep({})
    /\ UNCHANGED extVars

\* lines 126-127: streams.remove(desk_id) under the video_streams guard
DisconnectBegin(t, d) ==
    /\ streams_guard = NoTask
    /\ IF d \in DOMAIN video_streams
          THEN /\ streams_guard' = t
               /\ stream' = [stream EXCEPT ![t] = video_streams[d]]
               /\ video_streams' = Remove(video_streams, d)
               /\ pc' = [pc EXCEPT ![t] = "x_stop"]
          ELSE /\ pc' = [pc EXCEPT ![t] = "x_conns"]
               /\ UNCHANGED <<streams_guard, stream, video_streams>>

\* disconnect returns r, to its caller or to the loop of disconnect_all (line 152)
DisconnectEnd(t, r) ==
    /\ pc' = [pc EXCEPT ![t] =
                 IF op[t] = "disconnect_all" /\ r.ok /\ todo[t] # {}
                    THEN "a_next" ELSE "done"]
    /\ result' = [result EXCEPT ![t] = Returned(r)]

\* line 121
CoreDisconnect(t, d) ==
    /\ pc[t] = "idle"
    /\ Begin(t, "disconnect", d)
    /\ DisconnectBegin(t, d)
    /\ UNCHANGED <<connections, conns_guard, conn_guard, conn, todo, result, sessVars>>
    /\ UNCHANGED extVars

\* a disconnect that keeps the video_streams guard until it returns
CoreStopStream_holds(t) ==
    /\ pc[t] = "x_stop"
    /\ pc' = [pc EXCEPT ![t] = "x_conns"]
    /\ stream' = [stream EXCEPT ![t] = NoStream]
    /\ UNCHANGED <<connections, video_streams, conns_guard, streams_guard, conn_guard>>
    /\ UNCHANGED <<op, desk_id, conn, todo, result, pre, undisturbed, teardown, sends>>
    /\ Sweep({})
    /\ UNCHANGED extVars

\* lines 128-130: stream.stop().await?, then the stream and the guard are dropped
CoreStopStream(t) ==
    /\ pc[t] = "x_stop"
    /\ \E r \in StopOutcomes :
          IF r = "Ok"
             THEN /\ pc' = [pc EXCEPT ![t] = "x_conns"]
                  /\ UNCHANGED result
             ELSE DisconnectEnd(t, Err("video_stop", r))
    /\ stream' = [stream EXCEPT ![t] = NoStream]
    /\ streams_guard' = NoTask
    /\ UNCHANGED <<connections, video_streams, conns_guard, conn_guard>>
    /\ UNCHANGED <<op, desk_id, conn, todo, pre, undisturbed, teardown, sends>>
    /\ Sweep({})
    /\ UNCHANGED extVars

\* lines 133-134: conns.remove(desk_id) under the connections guard
CoreRemoveConn(t) ==
    /\ pc[t] = "x_conns"
    /\ conns_guard = NoTask
    /\ IF desk_id[t] \in DOMAIN connections
          THEN /\ conns_guard' = t
               /\ conn' = [conn EXCEPT ![t] = connections[desk_id[t]]]
               /\ connections' = Remove(connections, desk_id[t])
               /\ pc' = [pc EXCEPT ![t] = "x_lock_conn"]
               /\ UNCHANGED result
          ELSE /\ DisconnectEnd(t, Ok)
               /\ UNCHANGED <<conns_guard, conn, connections>>
    /\ UNCHANGED <<video_streams, streams_guard, conn_guard>>
    /\ UNCHANGED <<op, desk_id, stream, todo, pre, undisturbed, teardown, sends, sessVars>>
    /\ UNCHANGED extVars

\* lines 135-136: conn.lock().await, then conn.disconnect() is entered
CoreLockConn(t) ==
    /\ pc[t] = "x_lock_conn"
    /\ conn_guard[conn[t]] = NoTask
    /\ conn_guard' = [conn_guard EXCEPT ![conn[t]] = t]
    /\ spc' = [spc EXCEPT ![conn[t]] = DiscPc[1]]
    /\ pc' = [pc EXCEPT ![t] = "x_disconnecting"]
    /\ UNCHANGED <<live, sess, sres, last_call, punch, reached, config>>
    /\ UNCHANGED <<connections, video_streams, conns_guard, streams_guard>>
    /\ UNCHANGED <<op, desk_id, conn, stream, todo, result, pre, undisturbed, teardown, sends>>
    /\ UNCHANGED extVars

\* lines 136-139: conn.disconnect().await? returned; guards and the Arc are dropped
CoreDisconnected(t) ==
    /\ pc[t] = "x_disconnecting"
    /\ spc[conn[t]] = "idle"
    /\ conn_guard' = [conn_guard EXCEPT ![conn[t]] = NoTask]
    /\ conns_guard' = NoTask
    /\ conn' = [conn EXCEPT ![t] = NoObj]
    /\ DisconnectEnd(t, sres[conn[t]])
    /\ UNCHANGED <<connections, video_streams, streams_guard>>
    /\ UNCHANGED <<op, desk_id, stream, todo, pre, undisturbed, teardown, sends>>
    /\ Sweep({conn[t]})
    /\ UNCHANGED extVars

\* lines 143-149: the keys are copied under the connections guard
CoreDisconnectAll(t) ==
    /\ pc[t] = "idle"
    /\ conns_guard = NoTask
    /\ Begin(t, "disconnect_all", 0)
    /\ todo' = [todo EXCEPT ![t] = Keys(connections)]
    /\ pc' = [pc EXCEPT ![t] = IF Keys(connections) = {} THEN "done" ELSE "a_next"]
    /\ UNCHANGED <<coreVars, conn, stream, result, sessVars>>
    /\ UNCHANGED extVars

\* lines 151-152: the next key of the copy, in the order the HashMap gave
CoreNextId(t) ==
    /\ pc[t] = "a_next"
    /\ \E d \in todo[t] :
          /\ todo' = [todo EXCEPT ![t] = @ \ {d}]
          /\ desk_id' = [desk_id EXCEPT ![t] = d]
          /\ DisconnectBegin(t, d)
    /\ UNCHANGED <<connections, conns_guard, conn_guard>>
    /\ UNCHANGED <<op, conn, result, pre, undisturbed, teardown, sends, sessVars>>
    /\ UNCHANGED extVars

\* lines 159-161, 169-171, 179-186: conns.get(desk_id) under the connections guard
CoreSend(t, d, m) ==
    /\ pc[t] = "idle"
    /\ conns_guard = NoTask
    /\ Begin(t, m, d)
    /\ IF d \in DOMAIN connections
          THEN /\ conns_guard' = t
               /\ conn' = [conn EXCEPT ![t] = connections[d]]
               /\ pc' = [pc EXCEPT ![t] = "k_lock_conn"]
               /\ UNCHANGED result
          ELSE /\ result' = [result EXCEPT ![t] = Success({})]
               /\ pc' = [pc EXCEPT ![t] = "done"]
               /\ UNCHANGED <<conns_guard, conn>>
    /\ UNCHANGED <<connections, video_streams, streams_guard, conn_guard>>
    /\ UNCHANGED <<stream, todo, sessVars>>
    /\ UNCHANGED extVars

\* lines 162-163, 172-173, 187-188: conn.lock().await, then the event is forwarded
CoreSendLock(t) ==
    /\ pc[t] = "k_lock_conn"
    /\ conn_guard[conn[t]] = NoTask
    /\ conn_guard' = [conn_guard EXCEPT ![conn[t]] = t]
    /\ SendBegin(conn[t], Forward(op[t]))
    /\ pc' = [pc EXCEPT ![t] = "k_sending"]
    /\ UNCHANGED <<connections, video_streams, conns_guard, streams_guard>>
    /\ UNCHANGED <<op, desk_id, conn, stream, todo, result, pre, undisturbed, teardown>>
    /\ sends' = [sends EXCEPT ![t] = @ + 1]
    /\ UNCHANGED extVars

\* lines 163-165, 173-175, 188-190: the send returned; both guards are released
CoreSent(t) ==
    /\ pc[t] = "k_sending"
    /\ spc[conn[t]] = "idle"
    /\ result' = [result EXCEPT ![t] = Returned(sres[conn[t]])]
    /\ conn_guard' = [conn_guard EXCEPT ![conn[t]] = NoTask]
    /\ conns_guard' = NoTask
    /\ conn' = [conn EXCEPT ![t] = NoObj]
    /\ pc' = [pc EXCEPT ![t] = "done"]
    /\ UNCHANGED <<connections, video_streams, streams_guard>>
    /\ UNCHANGED <<op, desk_id, stream, todo, pre, undisturbed, teardown, sends>>
    /\ Sweep({conn[t]})
    /\ UNCHANGED extVars

\* lines 194-205
CoreGetConnections(t) ==
    /\ pc[t] = "idle"
    /\ conns_guard = NoTask
    /\ Begin(t, "get_connections", 0)
    /\ result' = [result EXCEPT ![t] = Success({SessionInfo(d) : d \in Keys(connections)})]
    /\ pc' = [pc EXCEPT ![t] = "done"]
    /\ UNCHANGED <<coreVars, conn, stream, todo, sessVars>>
    /\ UNCHANGED extVars

\* the record of a call is cleared
TaskReset(t) ==
    /\ pc' = [pc EXCEPT ![t] = "idle"]
    /\ op' = [op EXCEPT ![t] = "none"]
    /\ desk_id' = [desk_id EXCEPT ![t] = 0]
    /\ result' = [result EXCEPT ![t] = NoResult]
    /\ pre' = [pre EXCEPT ![t] = NoPre]
    /\ undisturbed' = [undisturbed EXCEPT ![t] = TRUE]
    /\ teardown' = [teardown EXCEPT ![t] = "none"]
    /\ sends' = [sends EXCEPT ![t] = 0]

\* the caller has taken the result
Return(t) ==
    /\ pc[t] = "done"
    /\ TaskReset(t)
    /\ UNCHANGED <<coreVars, conn, stream, todo, sessVars>>
    /\ UNCHANGED extVars

\* a session method in progress takes its next step
SessionRun(o) ==
    /\ SessionStep(o)
    /\ UNCHANGED <<coreVars, taskVars>>
    /\ UNCHANGED extVars

Next ==
    \/ \E t \in Tasks, d \in Ids : CoreConnect(t, d)
    \/ \E t \in Tasks : CoreConnected(t)
    \/ \E t \in Tasks : CoreStartVideo(t)
    \/ \E t \in Tasks : CoreInsertStream(t)
    \/ \E t \in Tasks, d \in Ids : CoreDisconnect(t, d)
    \/ \E t \in Tasks : CoreStopStream(t)
    \/ \E t \in Tasks : CoreRemoveConn(t)
    \/ \E t \in Tasks : CoreLockConn(t)
    \/ \E t \in Tasks : CoreDisconnected(t)
    \/ \E t \in Tasks : CoreDisconnectAll(t)
    \/ \E t \in Tasks : CoreNextId(t)
    \/ \E t \in Tasks, d \in Ids, m \in CoreInputOps : CoreSend(t, d, m)
    \/ \E t \in Tasks : CoreSendLock(t)
    \/ \E t \in Tasks : CoreSent(t)
    \/ \E t \in Tasks : CoreGetConnections(t)
    \/ \E t \in Tasks : Return(t)
    \/ \E o \in Objs : SessionRun(o)

Spec == Init /\ [][Next]_vars

(* -------------------------------------- a session object used on its own *)
\* RustDeskConnection::new (lines 68-80)
New ==
    /\ live = {}
    /\ live' = {1}
    /\ UNCHANGED <<sess, spc, sres, last_call, punch, reached, config>>
    /\ UNCHANGED <<coreVars, taskVars>>
    /\ UNCHANGED extVars

\* pub async fn connect(&mut self), line 83
CallConnect ==
    /\ 1 \in live /\ spc[1] = "idle"
    /\ spc' = [spc EXCEPT ![1] = "c_begin"]
    /\ UNCHANGED <<live, sess, sres, last_call, punch, reached, config>>
    /\ UNCHANGED <<coreVars, taskVars>>
    /\ UNCHANGED extVars

\* pub async fn disconnect(&mut self), line 186
CallDisconnect ==
    /\ 1 \in live /\ spc[1] = "idle"
    /\ spc' = [spc EXCEPT ![1] = DiscPc[1]]
    /\ UNCHANGED <<live, sess, sres, last_call, punch, reached, config>>
    /\ UNCHANGED <<coreVars, taskVars>>
    /\ UNCHANGED extVars

\* pub async fn send_key_event / send_mouse_move / send_mouse_click(&self)
CallSend ==
    /\ 1 \in live /\ spc[1] = "idle"
    /\ \E m \in InputOps : SendBegin(1, m)
    /\ UNCHANGED <<coreVars, taskVars>>
    /\ UNCHANGED extVars

SessionNext ==
    \/ New
    \/ CallConnect
    \/ CallDisconnect
    \/ CallSend
    \/ SessionRun(1)

SessionSpec == Init /\ [][SessionNext]_vars

\* the runtime keeps polling a method that was called: every await of connect,
\* disconnect and send_* completes, the timed waits (protocol.rs 289, 479) at
\* the latest when their 10-second timer fires
SessionLive == Init /\ [][SessionNext]_vars /\ WF_vars(SessionRun(1))


(* ------------------------------------- the protocol requests on their own *)
\* SecureHandshake::new (lines 442-446)
HandshakeNew ==
    /\ shared_secret' = "None"
    /\ pcall' = PCall("SecureHandshake::new", "none", NoReply, POk)
    /\ UNCHANGED <<id_socket, sessVars, coreVars, taskVars, libVars, pureVars>>

\* one call of perform_handshake: the peer's reply is any of Replies, and
\* nothing is awaited when the send failed
PerformHandshake ==
    \E send \in SendOutcomes, reply \in Yields(FALSE) \cup {NoReply} :
        /\ reply = NoReply <=> send # "Ok"
        /\ LET out == perform_handshake(shared_secret, send, reply) IN
            /\ shared_secret' = out.shared_secret
            /\ pcall' = PCall("perform_handshake", send, reply, out.result)
        /\ UNCHANGED <<id_socket, sessVars, coreVars, taskVars, libVars, pureVars>>

\* IdServerClient::new (lines 148-154)
ClientNew ==
    /\ id_socket' = "None"
    /\ pcall' = PCall("IdServerClient::new", "none", NoReply, POk)
    /\ UNCHANGED <<shared_secret, sessVars, coreVars, taskVars, libVars, pureVars>>

\* IdServerClient::connect (lines 157-230): the socket is stored once the
\* address parsed and bind and connect succeeded
ClientConnect ==
    \E r \in IdConnectOutcomes :
        /\ id_socket' = IF r = "Ok" THEN "Some" ELSE id_socket
        /\ pcall' = PCall("IdServerClient::connect", "none", NoReply,
                          IF r = "Ok" THEN POk ELSE PErr(r, ""))
        /\ UNCHANGED <<shared_secret, sessVars, coreVars, taskVars, libVars, pureVars>>

\* one call of request_connection
RequestConnection ==
    \E send \in SendOutcomes \cup {"none"}, reply \in Yields(TRUE) \cup {NoReply} :
        /\ send = "none" <=> id_socket = "None"
        /\ reply = NoReply <=> send # "Ok"
        /\ pcall' = PCall("request_connection", send, reply,
                          request_connection(id_socket, send, reply))
        /\ UNCHANGED <<id_socket, shared_secret, sessVars, coreVars, taskVars, libVars, pureVars>>

ProtocolNext ==
    \/ HandshakeNew
    \/ PerformHandshake
    \/ ClientNew
    \/ ClientConnect
    \/ RequestConnection

ProtocolSpec == Init /\ [][ProtocolNext]_vars


(* ------------------------------------------------ lib.rs: the entry points *)
\* An entry point holds the CORE_MANAGER lock from its first lines to its
\* return, so the host is in one entry point at a time, and the CoreManager
\* calls of an entry point run to their end in block_on before it returns.
\* Caller 1 is the future block_on drives.

\* tokio::runtime::Runtime::new()
RuntimeOutcomes == {"Ok", "Err"}

\* Vec<SessionInfo> of get_connections: the keys in the order the HashMap
\* iterates them, which is any order
Orders(ids) ==
    {f \in [1..Cardinality(ids) -> ids] :
        \A i, j \in 1..Cardinality(ids) : f[i] = f[j] => i = j}

\* the input entry takes a session it remembered, not the head of the list
First_remembered(order) == 1

\* connections.first() (lines 333, 373, 413)
First(order) == order[1]

\* init that builds a registry whenever it is called
LibInit_always ==
    /\ entry = "none"
    /\ manager' = "Some"
    /\ connections' = EmptyMap
    /\ video_streams' = EmptyMap
    /\ server_config' = DefaultServerConfig
    /\ status' = Gave("init", 0)
    /\ UNCHANGED <<entry, first, last_set, conns_guard, streams_guard, conn_guard>>
    /\ UNCHANGED <<sessVars, taskVars, protoVars, pureVars>>

\* init (lines 58-80)
LibInit ==
    /\ entry = "none"
    /\ IF manager = "Some"
          THEN /\ status' = Gave("init", 1)
               /\ UNCHANGED <<manager, server_config, connections, video_streams>>
          ELSE /\ manager' = "Some"
               /\ connections' = EmptyMap
               /\ video_streams' = EmptyMap
               /\ server_config' = DefaultServerConfig
               /\ status' = Gave("init", 0)
    /\ UNCHANGED <<entry, first, last_set, conns_guard, streams_guard, conn_guard>>
    /\ UNCHANGED <<sessVars, taskVars, protoVars, pureVars>>

\* set_server_config (lines 125-168)
LibSetServerConfig ==
    /\ entry = "none"
    /\ \E id_server \in IdServerArgs, force_relay \in BOOLEAN, rt \in RuntimeOutcomes :
          IF manager = "None" \/ rt # "Ok"
             THEN /\ status' = Threw("set_server_config")
                  /\ UNCHANGED <<server_config, last_set>>
             ELSE /\ server_config' = FromHost(id_server, force_relay)
                  /\ last_set' = FromHost(id_server, force_relay)
                  /\ status' = Gave("set_server_config", 0)
    /\ UNCHANGED <<manager, entry, first>>
    /\ UNCHANGED <<sessVars, coreVars, taskVars, protoVars, pureVars>>

\* an entry point up to its block_on: it throws without a registry if
\* strict, gives back Ok at once without one otherwise, and throws when no
\* runtime can be built
Enter(e, strict) ==
    /\ \E rt \in RuntimeOutcomes :
          IF manager = "None"
             THEN /\ status' = IF strict THEN Threw(e) ELSE Gave(e, 0)
                  /\ UNCHANGED entry
          ELSE IF rt # "Ok"
             THEN /\ status' = Threw(e)
                  /\ UNCHANGED entry
          ELSE /\ entry' = e
               /\ UNCHANGED status
    /\ UNCHANGED <<manager, first, server_config, last_set>>
    /\ UNCHANGED <<sessVars, coreVars, taskVars, protoVars, pureVars>>

\* connect (lines 171-194)
LibConnect == entry = "none" /\ Enter("connect", TRUE)
\* disconnect (lines 221-235)
LibDisconnect == entry = "none" /\ Enter("disconnect", FALSE)
\* cleanup (lines 250-265)
LibCleanup == entry = "none" /\ Enter("cleanup", FALSE)
\* get_connection_status (lines 280-293)
LibGetConnectionStatus == entry = "none" /\ Enter("status", FALSE)
\* send_key_event, send_mouse_move, send_mouse_click (lines 309-328, 349-368, 389-408)
LibSendInput == entry = "none" /\ Enter("send", FALSE)

\* a caller that holds the CoreManager itself calls one of its send_* methods
RegistryCall ==
    /\ entry = "none" /\ manager = "Some"
    /\ entry' = "registry"
    /\ UNCHANGED <<manager, first, status, server_config, last_set>>
    /\ UNCHANGED <<sessVars, coreVars, taskVars, protoVars, pureVars>>

\* the CoreManager calls inside block_on
HostConnect(d) == entry = "connect" /\ CoreConnect(1, d)
HostDisconnectAll == entry \in {"disconnect", "cleanup"} /\ CoreDisconnectAll(1)
HostGetConnections == entry \in {"status", "send"} /\ CoreGetConnections(1)
HostSend(m) == entry = "forward" /\ CoreSend(1, first, m)
RegistrySend(d, m) == entry = "registry" /\ CoreSend(1, d, m)

\* lines 333-334, 373-374, 413-414: the head of the list, if there is one
LibFirst ==
    /\ entry = "send" /\ pc[1] = "done"
    /\ LET ids == {i.id : i \in result[1].info} IN
          IF ids = {}
             THEN /\ status' = Gave("send", 0)
                  /\ entry' = "none"
                  /\ UNCHANGED first
             ELSE /\ \E order \in Orders(ids) : first' = First(order)
                  /\ entry' = "forward"
                  /\ UNCHANGED status
    /\ TaskReset(1)
    /\ UNCHANGED <<manager, server_config, last_set>>
    /\ UNCHANGED <<coreVars, conn, stream, todo, sessVars, protoVars, pureVars>>

\* the entry point returns what its CoreManager call gave (lines 203-217,
\* 241-246, 296-302, 336-345); cleanup drops the CoreManager, its maps and
\* with them the sessions (line 273)
LibReturn ==
    /\ entry \in {"connect", "disconnect", "cleanup", "status", "forward", "registry"}
    /\ pc[1] = "done"
    /\ status' =
          CASE entry = "connect" -> Gave("connect", IF result[1].ok THEN 0 ELSE 1)
            [] entry = "status" -> Gave("status", Cardinality(result[1].info))
            [] entry = "forward" -> Gave("send", 0)
            [] entry = "registry" -> Gave("registry", IF result[1].ok THEN 0 ELSE 1)
            [] OTHER -> Gave(entry, 0)
    /\ entry' = "none"
    /\ first' = 0
    /\ TaskReset(1)
    /\ IF entry = "cleanup"
          THEN /\ manager' = "None"
               /\ connections' = EmptyMap
               /\ video_streams' = EmptyMap
               /\ server_config' = DefaultServerConfig
               /\ UNCHANGED <<conns_guard, streams_guard, conn_guard, conn, stream, todo>>
               /\ Sweep({})
          ELSE UNCHANGED <<manager, server_config, coreVars, conn, stream, todo, sessVars>>
    /\ UNCHANGED <<last_set, protoVars, pureVars>>

LibNext ==
    \/ LibInit
    \/ LibSetServerConfig
    \/ LibConnect
    \/ LibDisconnect
    \/ LibCleanup
    \/ LibGetConnectionStatus
    \/ LibSendInput
    \/ RegistryCall
    \/ \E d \in Ids : HostConnect(d)
    \/ HostDisconnectAll
    \/ HostGetConnections
    \/ \E m \in CoreInputOps : HostSend(m)
    \/ \E d \in Ids, m \in CoreInputOps : RegistrySend(d, m)
    \/ CoreConnected(1)
    \/ CoreStartVideo(1)
    \/ CoreInsertStream(1)
    \/ CoreStopStream(1)
    \/ CoreRemoveConn(1)
    \/ CoreLockConn(1)
    \/ CoreDisconnected(1)
    \/ CoreNextId(1)
    \/ CoreSendLock(1)
    \/ CoreSent(1)
    \/ \E o \in Objs : SessionRun(o)
    \/ LibFirst
    \/ LibReturn

LibSpec == Init /\ [][LibNext]_vars

(* ------------------------------ lib.rs entered by several host threads *)
\* the entry points that run a CoreManager call
EntryPoints == {"connect", "disconnect", "cleanup", "status", "send"}

\* init (lines 58-80): CORE_MANAGER.lock() is held for the whole function
ThreadInit(h) ==
    /\ host[h] = "none" /\ manager_guard = NoTask
    /\ LibInit

\* an entry point that lets go of the CORE_MANAGER guard once it has cloned
\* the Arc<CoreManager>
ThreadEnter_unlocked(h, e) ==
    /\ host[h] = "none"
    /\ manager = "Some"
    /\ host' = [host EXCEPT ![h] = e]
    /\ UNCHANGED <<manager_guard, libVars>>
    /\ UNCHANGED <<sessVars, coreVars, taskVars, protoVars>>
    /\ UNCHANGED <<codecVars, videoVars, bufferVars, logVars, receiverVars>>

\* an entry point up to its block_on (lines 178-194, 224-233, 253-262,
\* 282-291, 313-326): CORE_MANAGER.lock() waits until no thread holds the
\* guard; the guard lives until the function returns, at once when there is
\* no registry or no runtime
ThreadEnter(h, e) ==
    /\ host[h] = "none"
    /\ manager_guard = NoTask
    /\ \E rt \in RuntimeOutcomes :
          IF manager = "None"
             THEN /\ status' = IF e = "connect" THEN Threw(e) ELSE Gave(e, 0)
                  /\ UNCHANGED <<manager_guard, host>>
          ELSE IF rt # "Ok"
             THEN /\ status' = Threw(e)
                  /\ UNCHANGED <<manager_guard, host>>
          ELSE /\ manager_guard' = h
               /\ host' = [host EXCEPT ![h] = e]
               /\ UNCHANGED status
    /\ UNCHANGED <<manager, entry, first, server_config, last_set>>
    /\ UNCHANGED <<sessVars, coreVars, taskVars, protoVars>>
    /\ UNCHANGED <<codecVars, videoVars, bufferVars, logVars, receiverVars>>

\* the CoreManager calls inside block_on, on the thread that made the entry
ThreadConnect(h, d) == host[h] = "connect" /\ CoreConnect(h, d)
ThreadDisconnectAll(h) == host[h] \in {"disconnect", "cleanup"} /\ CoreDisconnectAll(h)
ThreadGetConnections(h) == host[h] \in {"status", "send"} /\ CoreGetConnections(h)
ThreadSend(h, m) == host[h] = "forward" /\ CoreSend(h, desk_id[h], m)

\* the thread leaves its entry point: the guard is dropped
ThreadLeave(h) ==
    /\ host' = [host EXCEPT ![h] = "none"]
    /\ manager_guard' = IF manager_guard = h THEN NoTask ELSE manager_guard

\* lines 333-334, 373-374, 413-414: the head of the list, if there is one
ThreadFirst(h) ==
    /\ host[h] = "send" /\ pc[h] = "done"
    /\ LET ids == {i.id : i \in result[h].info} IN
          IF ids = {}
             THEN /\ status' = Gave("send", 0)
                  /\ ThreadLeave(h)
                  /\ TaskReset(h)
             ELSE /\ \E order \in Orders(ids) :
                        desk_id' = [desk_id EXCEPT ![h] = First(order)]
                  /\ host' = [host EXCEPT ![h] = "forward"]
                  /\ pc' = [pc EXCEPT ![h] = "idle"]
                  /\ result' = [result EXCEPT ![h] = NoResult]
                  /\ UNCHANGED <<status, manager_guard, op, pre, undisturbed,
                                 teardown, sends>>
    /\ UNCHANGED <<manager, entry, first, server_config, last_set>>
    /\ UNCHANGED <<coreVars, conn, stream, todo, sessVars, protoVars>>
    /\ UNCHANGED <<codecVars, videoVars, bufferVars, logVars, receiverVars>>

\* the entry point returns what its CoreManager call gave (lines 203-217,
\* 241-246, 296-302, 336-345); cleanup drops the CoreManager (line 273)
ThreadReturn(h) ==
    /\ host[h] \in {"connect", "disconnect", "cleanup", "status", "forward"}
    /\ pc[h] = "done"
    /\ status' =
          CASE host[h] = "connect" -> Gave("connect", IF result[h].ok THEN 0 ELSE 1)
            [] host[h] = "status" -> Gave("status", Cardinality(result[h].info))
            [] host[h] = "forward" -> Gave("send", 0)
            [] OTHER -> Gave(host[h], 0)
    /\ ThreadLeave(h)
    /\ TaskReset(h)
    /\ IF host[h] = "cleanup"
          THEN /\ manager' = "None"
               /\ connections' = EmptyMap
               /\ video_streams' = EmptyMap
               /\ server_config' = DefaultServerConfig
               /\ UNCHANGED <<conns_guard, streams_guard, conn_guard, conn, stream, todo>>
               /\ Sweep({})
          ELSE UNCHANGED <<manager, server_config, coreVars, conn, stream, todo, sessVars>>
    /\ UNCHANGED <<entry, first, last_set, protoVars>>
    /\ UNCHANGED <<codecVars, videoVars, bufferVars, logVars, receiverVars>>

HostNext ==
    \/ \E h \in Tasks : ThreadInit(h)
    \/ \E h \in Tasks, e \in EntryPoints : ThreadEnter(h, e)
    \/ \E h \in Tasks, d \in Ids : ThreadConnect(h, d)
    \/ \E h \in Tasks : ThreadDisconnectAll(h)
    \/ \E h \in Tasks : ThreadGetConnections(h)
    \/ \E h \in Tasks : ThreadFirst(h)
    \/ \E h \in Tasks, m \in CoreInputOps : ThreadSend(h, m)
    \/ \E t \in Tasks : CoreConnected(t)
    \/ \E t \in Tasks : CoreStartVideo(t)
    \/ \E t \in Tasks : CoreInsertStream(t)
    \/ \E t \in Tasks : CoreStopStream(t)
    \/ \E t \in Tasks : CoreRemoveConn(t)
    \/ \E t \in Tasks : CoreLockConn(t)
    \/ \E t \in Tasks : CoreDisconnected(t)
    \/ \E t \in Tasks : CoreNextId(t)
    \/ \E t \in Tasks : CoreSendLock(t)
    \/ \E t \in Tasks : CoreSent(t)
    \/ \E o \in Objs : SessionRun(o)
    \/ \E h \in Tasks : ThreadReturn(h)

HostSpec == Init /\ [][HostNext]_vars

(* ------------------------------------------------- the packet codec alone *)
\* the inputs: a Packet::new of a drawn type and payload that has not been
\* serialized yet, or bytes that came off the wire
CodecInputs ==
    \/ \E t \in MessageType, p \in Payloads :
        packet = Packet(t, p) /\ data = Vec(<<>>, 0)
    \/ packet = NoPacket /\ data \in WireData

\* Packet::serialize of the packet at hand
Serialize ==
    /\ packet # NoPacket
    /\ len(data) = 0
    /\ data' = serialize(packet)
    /\ UNCHANGED <<packet, decoded>>
    /\ UNCHANGED <<sessVars, coreVars, taskVars, protoVars, libVars,
                   videoVars, bufferVars, logVars, hostVars, receiverVars>>

\* Packet::deserialize on the bytes at hand
Deserialize ==
    /\ decoded = NoDecoded
    /\ packet = NoPacket \/ len(data) > 0
    /\ decoded' = deserialize_bytes(data)
    /\ UNCHANGED <<packet, data>>
    /\ UNCHANGED <<sessVars, coreVars, taskVars, protoVars, libVars,
                   videoVars, bufferVars, logVars, hostVars, receiverVars>>

CodecNext == Serialize \/ Deserialize

CodecSpecInit ==
    /\ ProgramInit /\ VideoStart(FALSE, DefaultDecoderConfig) /\ BufferStart(0) /\ LogStart(0)
    /\ ReceiverStart(0)
    /\ CodecInputs /\ decoded = NoDecoded

CodecSpec == CodecSpecInit /\ [][CodecNext]_vars

(* --------------------------------------- the VideoStreamReceiver alone *)
\* the operations looked at, and the frames queued before them
MaxCalls == 4
PreQueued == {0, capacity - 2}

\* the payload of a VideoFrame packet: width 2, height 2, a timestamp, data
FramePayload(ts, body) ==
    Vec(put_u32(2) \o put_u32(2) \o put_u32(0) \o put_u32(ts) \o body.head, body.pad)
\* the packets handed to handle_packet: frames with and without data, video
\* payloads of fewer than 12 bytes, and packets of other types
InboundPackets ==
    {Packet(VideoFrameType, FramePayload(ts, body)) :
        ts \in {200, 201}, body \in {Vec(<<>>, 0), Vec(<<7>>, 3)}}
      \cup {Packet(VideoFrameType, Vec(<<>>, n)) : n \in {0, 11}}
      \cup {Packet(17, FramePayload(200, Vec(<<>>, 0))), Packet(240, Vec(<<>>, 0))}

ReceiverUnchanged ==
    UNCHANGED <<sessVars, coreVars, taskVars, protoVars, libVars,
                codecVars, videoVars, bufferVars, logVars, hostVars>>

\* one call of handle_packet
HandlePacket(p) ==
    /\ handled < MaxCalls
    /\ LET out == handle_packet(channel, p) IN
          /\ channel' = out.channel
          /\ hcall' = HCall(handled + 1, p, out.outcome)
    /\ handled' = handled + 1
    /\ ReceiverUnchanged

\* mpsc::Receiver::recv on the other end takes the oldest frame
ReceiveFrame ==
    /\ handled < MaxCalls
    /\ channel.open /\ channel.frames # <<>>
    /\ channel' = [channel EXCEPT !.frames = Tail(@)]
    /\ handled' = handled + 1
    /\ UNCHANGED hcall
    /\ ReceiverUnchanged

\* the Receiver is dropped (mod.rs 198: video_receiver = None), and the
\* queued frames with it
DropReceiver ==
    /\ handled < MaxCalls
    /\ channel.open
    /\ channel' = [frames |-> <<>>, open |-> FALSE]
    /\ handled' = handled + 1
    /\ UNCHANGED hcall
    /\ ReceiverUnchanged

ReceiverNext ==
    \/ \E p \in InboundPackets : HandlePacket(p)
    \/ ReceiveFrame
    \/ DropReceiver

\* VideoStreamReceiver::new (lines 537-540), or a receiver some frames in
ReceiverSpecInit ==
    /\ ProgramInit /\ CodecInit /\ VideoStart(FALSE, DefaultDecoderConfig)
    /\ BufferStart(0) /\ LogStart(0)
    /\ \E queued \in PreQueued : ReceiverStart(queued)

ReceiverSpec == ReceiverSpecInit /\ [][ReceiverNext]_vars

(* ------------------------------------------------------- the decoder alone *)
\* the frame counter is a u64: the model stops producing at MaxFrames
MaxFrames == 3
\* widths and heights: small ones, the defaults, and ones whose product
\* with the pixel size does not fit 32 bits
Dims == {Num(0), Num(3), Num(1920), Num(65536), U32Max}
Configs ==
    {DecoderConfig(Num(1920), Num(1080)), DecoderConfig(Num(3), Num(1)),
     DecoderConfig(Num(65536), Num(65536))}
Nals ==
    {<<>>, <<0, 0, 0, 1>>, <<0, 0, 0, 1, 103>>, <<0, 0, 0, 1, 101, 136>>,
     <<0, 0, 0, 1, 65>>, <<103, 0, 0, 0, 1>>}

DecoderUnchanged ==
    UNCHANGED <<overflow_checks, sessVars, coreVars, taskVars, protoVars, libVars,
                codecVars, bufferVars, logVars, hostVars, receiverVars>>

\* DecodedFrame::new on drawn arguments
FrameNew(width, height, format) ==
    LET made == DecodedFrame_new(width, height, format, overflow_checks) IN
    /\ dcall' = DCall("new", made.kind, made.frame)
    /\ UNCHANGED <<decoder, dhist>>
    /\ DecoderUnchanged

\* H264Decoder::initialize (lines 177-186)
Initialize ==
    /\ decoder' = [decoder EXCEPT !.initialized = TRUE]
    /\ dcall' = DCall("initialize", "Ok", NoFrame)
    /\ dhist' = [dhist EXCEPT !.initialize_called = TRUE]
    /\ DecoderUnchanged

\* lines 205-213 and 229-234: the frame is made, stamped, counted, returned
Produce(fn) ==
    LET made == MockFrame(decoder, overflow_checks) IN
    /\ decoder.frame_count < MaxFrames
    /\ IF made.kind = "panic"
        THEN /\ dcall' = DCall(fn, "panic", NoFrame)
             /\ UNCHANGED <<decoder, dhist>>
        ELSE /\ dcall' = DCall(fn, "frame", made.frame)
             /\ decoder' = [decoder EXCEPT !.frame_count = @ + 1]
             /\ dhist' = [dhist EXCEPT !.any = TRUE, !.fresh = FALSE,
                                       !.last = made.frame.timestamp]

\* a decode call that stops at the initialized check
NotInitialized(fn) ==
    /\ dcall' = DCall(fn, "NotInitialized", NoFrame)
    /\ UNCHANGED <<decoder, dhist>>

\* H264Decoder::decode_nal (lines 189-217)
DecodeNal(nal_data) ==
    /\ IF ~decoder.initialized THEN NotInitialized("decode_nal")
       ELSE IF is_key_frame(nal_data) THEN Produce("decode_nal")
       ELSE /\ dcall' = DCall("decode_nal", "None", NoFrame)
            /\ UNCHANGED <<decoder, dhist>>
    /\ DecoderUnchanged

\* H264Decoder::decode_frame (lines 220-235)
DecodeFrame ==
    /\ IF ~decoder.initialized THEN NotInitialized("decode_frame")
       ELSE Produce("decode_frame")
    /\ DecoderUnchanged

\* H264Decoder::flush (lines 238-245)
Flush ==
    /\ IF ~decoder.initialized THEN NotInitialized("flush")
       ELSE /\ dcall' = DCall("flush", "None", NoFrame)
            /\ UNCHANGED <<decoder, dhist>>
    /\ DecoderUnchanged

\* H264Decoder::reset (lines 297-302)
Reset ==
    /\ decoder' = [decoder EXCEPT !.initialized = FALSE, !.frame_count = 0]
    /\ dcall' = DCall("reset", "Ok", NoFrame)
    /\ dhist' = [dhist EXCEPT !.fresh = TRUE]
    /\ DecoderUnchanged

VideoNext ==
    \/ \E width \in Dims, height \in Dims, format \in PixelFormat :
        FrameNew(width, height, format)
    \/ Initialize
    \/ \E nal_data \in Nals : DecodeNal(nal_data)
    \/ DecodeFrame
    \/ Flush
    \/ Reset

\* a build with or without overflow checks, a decoder of a drawn config
VideoSpecInit ==
    /\ ProgramInit /\ CodecInit /\ BufferStart(0) /\ LogStart(0) /\ ReceiverStart(0)
    /\ \E checks \in BOOLEAN, cfg \in Configs : VideoStart(checks, cfg)

VideoSpec == VideoSpecInit /\ [][VideoNext]_vars

(* -------------------------------------------------- the frame buffer alone *)
MaxCapacity == 4
NumFrames == 3
\* the pushes looked at between two clears
MaxPushes == 6
\* the frames given to push: decoded frames told apart by their timestamps
BufferFrames ==
    {[DecodedFrame_new(Num(2), Num(2), "RGBA", FALSE).frame EXCEPT !.timestamp = t] :
        t \in 0..(NumFrames - 1)}

BufferUnchanged ==
    UNCHANGED <<sessVars, coreVars, taskVars, protoVars, libVars,
                codecVars, videoVars, logVars, hostVars, receiverVars>>

\* a push that makes room by giving up the newest frame it holds
Push_drops_newest(frame) ==
    /\ Len(pushes) < MaxPushes
    /\ IF Len(buffer.frames) >= buffer.max_size /\ buffer.frames = <<>>
        THEN /\ bcall' = BCall("push", "panic", frame)
             /\ UNCHANGED <<buffer, pushes>>
        ELSE /\ bcall' = BCall("push", "Ok", frame)
             /\ buffer' = [buffer EXCEPT !.frames =
                    Append(IF Len(@) >= buffer.max_size
                              THEN SubSeq(@, 1, Len(@) - 1) ELSE @, frame)]
             /\ pushes' = Append(pushes, frame)
    /\ BufferUnchanged

\* FrameBuffer::push (lines 321-326).  Vec::remove(0) on an empty Vec
\* panics: that is the push into a buffer made with max_size 0.
Push(frame) ==
    /\ Len(pushes) < MaxPushes
    /\ IF Len(buffer.frames) >= buffer.max_size /\ buffer.frames = <<>>
        THEN /\ bcall' = BCall("push", "panic", frame)
             /\ UNCHANGED <<buffer, pushes>>
        ELSE /\ bcall' = BCall("push", "Ok", frame)
             /\ buffer' = [buffer EXCEPT !.frames =
                    Append(IF Len(@) >= buffer.max_size THEN Tail(@) ELSE @, frame)]
             /\ pushes' = Append(pushes, frame)
    /\ BufferUnchanged

\* FrameBuffer::get_latest (lines 329-331), on &self
GetLatest ==
    /\ bcall' = BCall("get_latest", IF get_latest(buffer).some THEN "Some" ELSE "None",
                      get_latest(buffer).frame)
    /\ UNCHANGED <<buffer, pushes>>
    /\ BufferUnchanged

\* FrameBuffer::clear (lines 339-341)
Clear ==
    /\ buffer' = [buffer EXCEPT !.frames = <<>>]
    /\ bcall' = BCall("clear", "Ok", NoFrame)
    /\ pushes' = <<>>
    /\ BufferUnchanged

BufferNext ==
    \/ \E frame \in BufferFrames : Push(frame)
    \/ GetLatest
    \/ Clear

\* FrameBuffer::new of a drawn capacity
BufferSpecInit ==
    /\ ProgramInit /\ CodecInit /\ VideoStart(FALSE, DefaultDecoderConfig) /\ LogStart(0)
    /\ ReceiverStart(0)
    /\ \E max_size \in 0..MaxCapacity : BufferStart(max_size)

BufferSpec == BufferSpecInit /\ [][BufferNext]_vars

(* ------------------------------------------------ the log collector alone *)
\* the log calls made after the first state
MaxLogs == 5
\* the collector at the first state: new, or two entries short of full
PreLogged == {0, max_entries - 2}
MacroLevels == {"Error", "Warn", "Info", "Debug"}
ConnectErrors == {"Timeout", "Peer not found"}

LogUnchanged ==
    UNCHANGED <<sessVars, coreVars, taskVars, protoVars, libVars,
                codecVars, videoVars, bufferVars, hostVars, receiverVars>>

\* log_error!, log_warn!, log_info!, log_debug! (lines 143-192) of an entry
\* point that does nothing else to the collector
LogMacro(level) ==
    /\ clock < MaxLogs
    /\ clock' = clock + 1
    /\ collector' = log(collector, clock + 1, level, <<"entry">>)
    /\ UNCHANGED <<lcall, recorded>>
    /\ LogUnchanged

\* connect (lib.rs 171-218), from what its path to CoreManager::connect
\* gives: log_info! at line 176; then an Error thrown with a log_error!
\* (lines 180, 186, 192), or Ok(0) with a log_info! (line 206), or
\* log_error!, set_error and Ok(1) (lines 210-215)
Connect(outcome) ==
    LET entered == log(collector, clock + 1, "Info", <<"Connecting to remote desk: ", "a">>)
    IN
    /\ clock + 3 <= MaxLogs
    /\ IF outcome = "throw"
        THEN /\ collector' = log(entered, clock + 2, "Error", <<"Module not initialized">>)
             /\ clock' = clock + 2
             /\ lcall' = LCall("connect", "Err", 0, NoMessage)
             /\ UNCHANGED recorded
        ELSE IF outcome = "Ok"
        THEN /\ collector' = log(entered, clock + 2, "Info", <<"Connection successful to: ", "a">>)
             /\ clock' = clock + 2
             /\ lcall' = LCall("connect", "Ok", 0, NoMessage)
             /\ UNCHANGED recorded
        ELSE /\ collector' =
                set_error(log(entered, clock + 2, "Error",
                              <<"Connection failed to ", "a", ": ", outcome>>),
                          clock + 3, <<"Connection failed: ", outcome>>)
             /\ clock' = clock + 3
             /\ lcall' = LCall("connect", "Ok", 1, NoMessage)
             /\ recorded' = Message(<<"Connection failed: ", outcome>>)
    /\ LogUnchanged

\* the panic hook (lib.rs 28-54): set_panic
PanicHook ==
    /\ clock < MaxLogs
    /\ clock' = clock + 1
    /\ collector' = set_panic(collector, clock + 1, <<"Panic: ", "get_u8">>)
    /\ UNCHANGED <<lcall, recorded>>
    /\ LogUnchanged

\* get_last_error (lib.rs 101-113)
GetLastError ==
    /\ lcall' = LCall("get_last_error", "Ok", 0, get_last_error(collector))
    /\ UNCHANGED <<collector, clock, recorded>>
    /\ LogUnchanged

\* clear_logs (lib.rs 116-122)
ClearLogs ==
    /\ collector' = clear(collector)
    /\ lcall' = LCall("clear_logs", "Ok", 0, NoMessage)
    /\ recorded' = NoMessage
    /\ UNCHANGED clock
    /\ LogUnchanged

LogNext ==
    \/ \E level \in MacroLevels : LogMacro(level)
    \/ \E outcome \in {"throw", "Ok"} \cup ConnectErrors : Connect(outcome)
    \/ PanicHook
    \/ GetLastError
    \/ ClearLogs

LogSpecInit ==
    /\ ProgramInit /\ CodecInit /\ VideoStart(FALSE, DefaultDecoderConfig) /\ BufferStart(0)
    /\ ReceiverStart(0)
    /\ \E logged \in PreLogged : LogStart(logged)

LogSpec == LogSpecInit /\ [][LogNext]_vars

(* ======================================================== claims C1 - C10 *)

\* lib.rs 296-300: the number connection_status reports for a sessions map
ConnectionStatus(m) == Cardinality({SessionInfo(d) : d \in Keys(m)})

\* the entry of d, in both maps, is what the call of t found
SameEntry(t, d) ==
    /\ (d \in DOMAIN connections) = (d \in DOMAIN pre[t].connections)
    /\ d \in DOMAIN connections => connections[d] = pre[t].connections[d]
    /\ (d \in DOMAIN video_streams) = (d \in DOMAIN pre[t].video_streams)
    /\ d \in DOMAIN video_streams => video_streams[d] = pre[t].video_streams[d]

\* t has returned from a call of m that no disturbing call overlapped
ReturnedFrom(t, m) == pc[t] = "done" /\ op[t] = m /\ undisturbed[t]

\* C1: an insert into the sessions map never replaces the session already
\* stored for that id (under every interleaving of connect calls)
C1_InsertRejectsDuplicate ==
    [][\A d \in Ids :
          (d \in DOMAIN connections /\ d \in DOMAIN connections')
             => connections'[d] = connections[d]]_vars

\* C2: a connect for an id that is in the registry returns at once with that
\* id's SessionInfo: no session object is made, no session method (hence no
\* network operation) runs, and maps and guards stay as they are
C2_ConnectPresentIsNoop ==
    [][\A t \in Tasks :
          (pc[t] = "idle" /\ pc'[t] # "idle" /\ op'[t] = "connect"
              /\ desk_id'[t] \in DOMAIN connections)
             => /\ pc'[t] = "done"
                /\ result'[t] = Success({SessionInfo(desk_id'[t])})
                /\ UNCHANGED <<connections, video_streams>>
                /\ UNCHANGED <<conns_guard, streams_guard, conn_guard>>
                /\ UNCHANGED <<live, sess, spc>>]_vars

C2_Witness ==
    \E t \in Tasks :
        /\ ReturnedFrom(t, "connect")
        /\ desk_id[t] \in DOMAIN pre[t].connections
        /\ result[t] = Success({SessionInfo(desk_id[t])})

\* C3: when connect(id) has returned an error, neither map contains id and
\* the entries of all other ids are what the call found
C3_FailedConnectLeavesNothing ==
    \A t \in Tasks :
        (ReturnedFrom(t, "connect") /\ ~result[t].ok)
           => /\ desk_id[t] \notin DOMAIN connections
              /\ desk_id[t] \notin DOMAIN video_streams
              /\ \A d \in Ids \ {desk_id[t]} : SameEntry(t, d)

\* C4: the state of a session object changes only along
\* Disconnected->Connecting, Connecting->Connected, Connecting->Failed and
\* Connected->Disconnected; nothing leaves Failed
C4_StateTransitions ==
    [][\A o \in live :
          sess'[o].state # sess[o].state
             => <<sess[o].state, sess'[o].state>> \in
                   {<<"Disconnected", "Connecting">>, <<"Connecting", "Connected">>,
                    <<"Connecting", "Failed">>, <<"Connected", "Disconnected">>}]_vars

\* C5: in every state, also between two field writes of connect or of
\* disconnect, a session in state Connected has its socket and its peer
\* address set
C5_ConnectedHasEndpoint ==
    \A o \in live :
        sess[o].state = "Connected"
           => sess[o].socket = "Some" /\ sess[o].peer_addr = "Some"

C5_Witness ==
    \E o \in live :
        /\ sess[o].state = "Connected"
        /\ spc[o] = "d_write_1"
        /\ last_call[o].method = "connect"

\* C6: when the session-level connect has returned an error the state is Failed
C6_ErrorMeansFailed ==
    \A o \in live :
        (spc[o] = "idle" /\ last_call[o].method = "connect" /\ ~sres[o].ok)
           => sess[o].state = "Failed"

\* C7: a send_* on a session whose state is not Connected never reaches the
\* send_to (no datagram leaves) and returns success
C7_NoSendUnlessConnected ==
    \A o \in live :
        /\ spc[o] = "k_send_to" => sess[o].state = "Connected"
        /\ (spc[o] = "idle" /\ last_call[o].method \in InputOps
               /\ sess[o].state # "Connected") => sres[o] = Ok

\* C8: whenever disconnect has returned, the first time or again and from
\* whatever state, it returned Ok and the session is Disconnected with socket,
\* peer address, input sender and frame receiver all dropped
C8_DisconnectIdempotent ==
    \A o \in live :
        (spc[o] = "idle" /\ last_call[o].method = "disconnect")
           => sess[o] = NewConnection /\ sres[o] = Ok

C8_Witness ==
    \E o \in live :
        /\ spc[o] = "idle"
        /\ last_call[o] = [method |-> "disconnect", again |-> TRUE]

\* C9: when disconnect(id) has returned, connection_status is one less than
\* the call found it if id was in the sessions map and the same otherwise,
\* and the entries of all other ids are what the call found
C9_DisconnectSymmetry ==
    \A t \in Tasks :
        ReturnedFrom(t, "disconnect")
           => /\ ConnectionStatus(connections) =
                    IF desk_id[t] \in DOMAIN pre[t].connections
                       THEN ConnectionStatus(pre[t].connections) - 1
                       ELSE ConnectionStatus(pre[t].connections)
              /\ \A d \in Ids \ {desk_id[t]} : SameEntry(t, d)

C9_Witness ==
    \E t \in Tasks :
        /\ ReturnedFrom(t, "disconnect")
        /\ desk_id[t] \in DOMAIN pre[t].connections
        /\ ConnectionStatus(pre[t].connections) = 2

\* C10: a disconnect_all that no connect overlaps leaves both maps empty, and
\* each session it removed is Disconnected when its disconnect returns
C10_DisconnectAllEmpties ==
    \A t \in Tasks :
        (op[t] = "disconnect_all" /\ undisturbed[t])
           => /\ pc[t] = "done" => (Keys(connections) = {} /\ Keys(video_streams) = {})
              /\ (pc[t] = "x_disconnecting" /\ spc[conn[t]] = "idle")
                    => sess[conn[t]].state = "Disconnected"

(* ======================================================= claims C11 - C20 *)

\* C11: a connect that was in flight when a disconnect_all copied the keys,
\* and that no other removing call met, has its session in the sessions map
\* once it has returned success and the disconnect_all has returned
C11_TeardownSparesInFlightConnect ==
    \A c \in Tasks :
        (/\ op[c] = "connect" /\ pc[c] = "done" /\ result[c].ok
         /\ teardown[c] = "snapshot"
         /\ \A a \in Tasks : op[a] = "disconnect_all" => ~InFlight(a))
           => desk_id[c] \in DOMAIN connections

\* C12: two connects of different ids that no removing call met and that both
\* returned success leave an entry for each id, with two different sessions
\* and a pipeline each; and while the two run every session to be found in the
\* map is Connected
C12_TwoConnectsTwoEntries ==
    \A c1, c2 \in Tasks :
        (/\ c1 # c2 /\ op[c1] = "connect" /\ op[c2] = "connect"
         /\ desk_id[c1] # desk_id[c2]
         /\ teardown[c1] = "none" /\ teardown[c2] = "none")
           => /\ \A d \in DOMAIN connections : sess[connections[d]].state = "Connected"
              /\ (pc[c1] = "done" /\ pc[c2] = "done" /\ result[c1].ok /\ result[c2].ok)
                    => /\ {desk_id[c1], desk_id[c2]} \subseteq DOMAIN connections
                       /\ {desk_id[c1], desk_id[c2]} \subseteq DOMAIN video_streams
                       /\ connections[desk_id[c1]] # connections[desk_id[c2]]

C12_Witness ==
    \E c1, c2 \in Tasks :
        /\ c1 # c2 /\ op[c1] = "connect" /\ op[c2] = "connect"
        /\ desk_id[c1] # desk_id[c2]
        /\ teardown[c1] = "none" /\ teardown[c2] = "none"
        /\ pc[c1] = "done" /\ pc[c2] = "done" /\ result[c1].ok /\ result[c2].ok
        /\ ~undisturbed[c1] /\ ~undisturbed[c2]

\* C13: no task holds the guard of the sessions map while the session method
\* it called is at a network operation
C13_NoGuardAcrossNetwork ==
    \A t \in Tasks :
        (conn[t] # NoObj /\ spc[conn[t]] \in NetworkPc) => conns_guard # t

\* C14: when punch_hole failed in a connect, the connect goes on to the
\* handshake with the state still Connecting; it returns Ok with the state
\* Connected when the handshake and the session construction succeed, and the
\* only errors it can return are theirs
C14_PunchFailureIsAdvisory ==
    \A o \in live :
        punch[o] = "Io"
           => /\ spc[o] \in {"c_handshake", "c_write_1", "c_write_2", "c_try_clone",
                            "c_write_3", "c_write_4", "c_write_5"}
                    => sess[o].state = "Connecting"
              /\ spc[o] = "c_failed"
                    => sess[o].state = "Connecting" /\ sres[o].phase = "handshake"
              /\ spc[o] \notin {"c_id_server", "c_request", "c_bind", "c_local_addr", "c_punch"}
              /\ (spc[o] = "idle" /\ last_call[o].method = "connect")
                    => IF sres[o].ok THEN sess[o].state = "Connected"
                                     ELSE sres[o].phase \in {"handshake", "try_clone"}

C14_Witness ==
    \E o \in live :
        /\ punch[o] = "Io" /\ spc[o] = "idle" /\ last_call[o].method = "connect"
        /\ sres[o].ok /\ sess[o].state = "Connected"

\* the bytes of a reply that reach the 1024-byte receive buffer
Received(reply) == Recv(reply.data, RecvBuf)

\* the reply is a whole packet of type ty whose payload begins with a byte
\* in bs
IsPacket(reply, ty, bs) ==
    /\ reply.kind = "datagram"
    /\ Received(reply).size >= HEADER_SIZE + reply.data.len
    /\ reply.data.type = ty
    /\ reply.data.len >= 1
    /\ reply.data.b0 \in bs

\* C15: perform_handshake succeeds if and only if the response it receives
\* within the 10 seconds is a HandshakeResponse whose first payload byte is
\* 0; a HandshakeResponse with another first byte yields
\* HandshakeFailed("Authentication failed"), no response yields Timeout, and
\* the shared secret is stored on success and only then: a failing call
\* leaves it as it was, and it goes from unset to set in no other step
C15_Step ==
    /\ pcall'.fn = "perform_handshake" =>
        /\ pcall'.result.ok <=> IsPacket(pcall'.reply, HandshakeResponse, {0})
        /\ IsPacket(pcall'.reply, HandshakeResponse, Bytes \ {0}) =>
              pcall'.result = PErr("HandshakeFailed", "Authentication failed")
        /\ pcall'.reply.kind = "elapsed" => pcall'.result = PErr("Timeout", "")
        /\ pcall'.result.ok => shared_secret' = "Some"
        /\ ~pcall'.result.ok => shared_secret' = shared_secret
    /\ (shared_secret = "None" /\ shared_secret' = "Some") =>
          (pcall'.fn = "perform_handshake" /\ pcall'.result.ok)
C15_HandshakeOutcome == [][C15_Step]_vars

\* a handshake answered with status 0 has returned Ok and stored the secret
C15_Witness ==
    /\ pcall.fn = "perform_handshake"
    /\ IsPacket(pcall.reply, HandshakeResponse, {0})
    /\ pcall.result.ok
    /\ shared_secret = "Some"

Returns(e) ==
    /\ status'.entry = e
    /\ status' # status \/ (entry # "none" /\ entry' = "none")

\* C17: init returns 0 exactly when no registry exists and then creates an
\* empty one; init returns 1 when a registry exists and leaves it and its
\* sessions as they are; a cleanup that returns has disconnected every
\* session and discarded the registry, so that until the next init
\* connection_status is 0 and no registry exists (the next init returns 0)
C17_Step ==
    /\ Returns("init") =>
          /\ status'.kind = "Ok" /\ status'.value \in {0, 1}
          /\ status'.value = 0 <=> manager = "None"
          /\ status'.value = 0 =>
                manager' = "Some" /\ connections' = EmptyMap /\ video_streams' = EmptyMap
          /\ status'.value = 1 =>
                UNCHANGED <<manager, server_config, coreVars, sessVars>>
    /\ (Returns("cleanup") /\ status'.kind = "Ok" /\ entry = "cleanup") =>
          connections = EmptyMap /\ video_streams = EmptyMap /\ live = {}
    /\ (status'.entry = "cleanup" /\ status'.kind = "Ok") =>
          manager' = "None" /\ connections' = EmptyMap /\ live' = {}
    /\ (Returns("status") /\ manager = "None") => status' = Gave("status", 0)
C18_Step ==
    Returns("connect") =>
        /\ status'.kind = "Ok"
        /\ status'.value = IF entry = "connect" /\ result[1].ok THEN 0 ELSE 1
C18_ConnectStatus == [][C18_Step]_vars

\* C19: an input entry point that returns has forwarded its event to
\* exactly one session, the head of the list the registry iterated for this
\* call, and to none when the registry is empty or does not exist; a send_*
\* of the registry for an id that is not present is a no-op returning success
C19_Step ==
    /\ sends'[1] > sends[1] =>
          /\ entry \in {"forward", "registry"}
          /\ entry = "forward" =>
                first \in DOMAIN connections /\ conn[1] = connections[first]
    /\ (Returns("send") /\ status'.kind = "Ok") =>
          IF entry = "forward"
             THEN sends[1] = 1 /\ desk_id[1] = first /\ first \in DOMAIN connections
             ELSE sends[1] = 0 /\ (manager = "None" \/ connections = EmptyMap)
    /\ (entry = "forward" /\ pc[1] = "done") => sends[1] = 1
    /\ (entry = "registry" /\ pc[1] = "idle" /\ pc'[1] # "idle"
            /\ desk_id'[1] \notin DOMAIN connections) =>
          /\ pc'[1] = "done" /\ result'[1].ok /\ sends'[1] = 0
          /\ UNCHANGED <<coreVars, sessVars>>
    /\ (Returns("registry") /\ desk_id[1] \notin DOMAIN connections) =>
          status' = Gave("registry", 0) /\ sends[1] = 0
C20_Step ==
    /\ \A o \in live \cap live' : config'[o] = config[o]
    /\ \A o \in live' \ live :
          config'[o] =
             [id_server |-> IF last_set.id_server = "None"
                               THEN "router.rustdesk.com:21116"
                               ELSE last_set.id_server,
              force_relay |-> last_set.force_relay]
C20_ConfigSnapshot == [][C20_Step]_vars

(* ======================================================= claims C21 - C30 *)
\* the largest payload the wire format is specified to carry: 1 MiB
MaxPayload == 1024 * 1024

\* deserialize has returned for bytes that serialize made of `packet`
RoundTrip == decoded.call = "deserialize" /\ packet # NoPacket

\* C21: for every message type of the closed set and every payload of at
\* most MaxPayload bytes, deserialize applied to the bytes serialize gave
\* succeeds and returns exactly that type and that payload.
C21_RoundTrip ==
    RoundTrip /\ len(packet.payload) <= MaxPayload
        => decoded.ok /\ decoded.packet = packet
C21_Witness ==
    /\ RoundTrip
    /\ len(packet.payload) = MaxPayload
    /\ packet.payload.head = <<255, 1>>
    /\ packet.msg_type = 240
    /\ decoded.ok

\* deserialize has returned for bytes that came off the wire
Decoded == decoded.call = "deserialize" /\ packet = NoPacket
\* the bytes present behind the 6-byte header
Present == len(data) - HEADER_SIZE

\* C22: deserialize fails with InvalidPacket on every byte string shorter
\* than 6 bytes, on every byte string whose 16-bit type code is not one of
\* the 14 codes, and on every byte string whose declared payload length
\* exceeds the bytes present after the header.
C22_Rejects ==
    Decoded /\ (\/ len(data) < HEADER_SIZE
                \/ get_u16(data) \notin MessageType
                \/ get_u32(data) > Present)
        => ~decoded.ok /\ decoded.err = "InvalidPacket"
C22_Witness ==
    /\ Decoded
    /\ Cardinality(MessageType) = 14
    /\ get_u16(data) = 240
    /\ get_u32(data) = MaxPayload + 1
    /\ Present = MaxPayload
    /\ decoded.err = "InvalidPacket"

\* C23: no packet whose payload length exceeds MaxPayload is accepted:
\* deserialize rejects every datagram whose declared payload length is
\* greater than the maximum, and serialize gives no bytes for a payload
\* larger than the maximum.
C23_MaxPayload ==
    /\ Decoded /\ len(data) >= HEADER_SIZE /\ get_u32(data) > MaxPayload => ~decoded.ok
    /\ packet # NoPacket /\ len(packet.payload) > MaxPayload => len(data) = 0

\* C24: for a FrameBuffer of any capacity N, after any sequence of push and
\* clear operations the number of held frames is at most N, and after a
\* push the frame get_latest returns is the frame just pushed.
C24_FrameBufferBound ==
    /\ Len(buffer.frames) <= buffer.max_size
    /\ bcall.fn = "push" => get_latest(buffer) = Some(bcall.frame)

\* the size (width, height, format) dictates: 4, 3 and 3/2 bytes a pixel
FormatSize(width, height, format) ==
    IF format = "YUV420P" THEN Half(Mul(Mul(width, height), Num(3)))
    ELSE Mul(Mul(width, height), Num(Factor(format)))

\* C25: every frame created by DecodedFrame::new or returned by decode_nal
\* or decode_frame has a byte buffer whose length is width * height * 4 for
\* RGBA, width * height * 3 for RGB and width * height * 3 / 2 for YUV420P,
\* for every 32-bit unsigned width and height.
C25_FrameSize ==
    dcall.outcome = "frame"
        => dcall.frame.len =
            FormatSize(dcall.frame.width, dcall.frame.height, dcall.frame.format)

\* the log calls of a step, and the entries they push out of a full ring
Logged == clock' - clock
Evicted ==
    IF Len(collector.entries) + Logged > max_entries
        THEN Len(collector.entries) + Logged - max_entries ELSE 0

\* C26: the log ring never holds more than 1000 entries after a log
\* operation completes; at capacity exactly the oldest entry is evicted and
\* the remaining entries keep their order.
C26_Step ==
    Logged > 0 =>
        /\ Len(collector'.entries) <= 1000
        /\ Len(collector'.entries) = Len(collector.entries) + Logged - Evicted
        /\ SubSeq(collector'.entries, 1, Len(collector.entries) - Evicted)
            = SubSeq(collector.entries, Evicted + 1, Len(collector.entries))
C26_LogRing == [][C26_Step]_vars
C26_Witness ==
    /\ Len(collector.entries) = 1000
    /\ collector.entries[1].timestamp = -996
    /\ collector.entries[1000].timestamp = 3
    /\ collector.entries[1000].level = "Info"

\* C27: after a connect entry call returns 1 for a failed connection,
\* get_last_error returns a non-null reason string, the reason of the most
\* recent failed connect, and keeps returning it until another failure is
\* recorded or the logs are cleared.
C27_Step ==
    /\ lcall' # lcall /\ lcall'.fn = "connect" /\ lcall'.kind = "Ok" /\ lcall'.value = 1
        => recorded'.some /\ get_last_error(collector') = recorded'
    /\ lcall'.fn = "get_last_error" /\ UNCHANGED <<collector, recorded>> /\ recorded.some
        => lcall'.text = recorded
C27_LastError == [][C27_Step]_vars
C27_Witness ==
    /\ lcall.fn = "get_last_error"
    /\ lcall.text = Message(<<"Connection failed: ", "Peer not found">>)
    /\ recorded = lcall.text
    /\ collector.panic_message.some
    /\ collector.entries[Len(collector.entries)].level = "Error"
    /\ Len(collector.entries) = 1000

\* a decode call has returned: decode_nal, decode_frame or flush
DecodeCalls == {"decode_nal", "decode_frame", "flush"}
DecodeStep == dcall' # dcall /\ dcall'.fn \in DecodeCalls

\* C28: on a decoder on which initialize has not been called, decode_nal,
\* decode_frame and flush each fail with NotInitialized and leave the frame
\* counter unchanged; after initialize they no longer fail with
\* NotInitialized.
C28_Step ==
    DecodeStep =>
        IF dhist.initialize_called
            THEN dcall'.outcome # "NotInitialized"
            ELSE /\ dcall'.outcome = "NotInitialized"
                 /\ decoder'.frame_count = decoder.frame_count
C28_NotInitialized == [][C28_Step]_vars

\* a call has returned a frame of the decoder
Produces == dcall' # dcall /\ dcall'.fn \in DecodeCalls /\ dcall'.outcome = "frame"

\* C29: the timestamps of the frames one decoder produces increase and
\* start at zero: the first frame has timestamp 0, every later frame a
\* timestamp greater than the frame before it, and a call that produces no
\* frame does not consume a timestamp.
C29_Step ==
    /\ Produces =>
        IF dhist.any THEN dcall'.frame.timestamp > dhist.last
        ELSE dcall'.frame.timestamp = 0
    /\ DecodeStep /\ ~Produces => decoder'.frame_count = decoder.frame_count
C29_Timestamps == [][C29_Step]_vars

\* C29 as the code has it: the timestamps count from zero since the decoder
\* was created or reset last: the first frame since then has timestamp 0,
\* every later frame the timestamp of the frame before it plus one, and a
\* call that produces no frame does not consume a timestamp.
C29_AmendedStep ==
    /\ Produces =>
        IF dhist.fresh THEN dcall'.frame.timestamp = 0
        ELSE dcall'.frame.timestamp = dhist.last + 1
    /\ DecodeStep /\ ~Produces => decoder'.frame_count = decoder.frame_count
C29_SinceReset == [][C29_AmendedStep]_vars
C29_Witness ==
    /\ dcall.fn = "decode_nal"
    /\ dcall.outcome = "frame"
    /\ dcall.frame.timestamp = 2
    /\ dhist.last = 2
    /\ decoder.frame_count = 3

\* C30: reset reinitializes the counters and the decoder state: after reset
\* on an initialized decoder the decoder is again ready to decode, and the
\* next frame it produces has timestamp 0.
C30_Step ==
    /\ dcall' # dcall /\ dcall'.fn = "reset" /\ decoder.initialized
        => decoder'.initialized /\ decoder'.frame_count = 0
    /\ Produces /\ dhist.fresh => dcall'.frame.timestamp = 0
C30_Reset == [][C30_Step]_vars

(* ======================================================= claims C31 - C40 *)

\* no call of the CoreManager is between its first and its last step
Quiet == \A t \in Tasks : ~InFlight(t)

\* C31: the two registry maps stay parallel: in every reachable state every id
\* with a video-pipeline entry also has a session entry, and whenever no
\* registry operation is in progress the two maps have the same keys.
C31_MapsParallel ==
    /\ Keys(video_streams) \subseteq Keys(connections)
    /\ Quiet => Keys(video_streams) = Keys(connections)

\* the sessions the registry shows
Visible(m) == {m[d] : d \in Keys(m)}

\* C32: every session visible in the registry is Connected: it is inserted
\* only after its connect reached Connected, a Failed session is never in the
\* registry, and a session is removed from the map before, and under the same
\* guard as, its state becomes Disconnected.
C32_Step ==
    /\ \A o \in Visible(connections') : sess'[o].state = "Connected"
    /\ \A o \in live' :
          sess[o].state # "Disconnected" /\ sess'[o].state = "Disconnected"
              => /\ o \notin Visible(connections)
                 /\ \E t \in Tasks :
                       conns_guard = t /\ conn[t] = o /\ op[t] \in Teardowns
C32_VisibleIsConnected == [][C32_Step]_vars
\* a disconnect wrote Disconnected to the session it took out of the registry
\* while another session is still visible
C32_Witness ==
    \E t \in Tasks :
        /\ pc[t] = "x_disconnecting"
        /\ conns_guard = t
        /\ sess[conn[t]].state = "Disconnected"
        /\ conn[t] \notin Visible(connections)
        /\ connections # EmptyMap

\* the operation connect awaits at a program point
AwaitedAt ==
    [c_id_server |-> "id_connect", c_request |-> "request_connection",
     c_bind |-> "bind", c_local_addr |-> "local_addr", c_punch |-> "punch_hole",
     c_handshake |-> "handshake", c_try_clone |-> "try_clone"]

\* the operations the connect call on o has started, in the order it started them
Started(o) ==
    [i \in 1..Len(reached[o]) |-> reached[o][i][1]]
        \o (IF spc[o] \in DOMAIN AwaitedAt THEN <<AwaitedAt[spc[o]]>> ELSE <<>>)

\* C33: phase ordering of one connect call: the peer lookup is sent only after
\* the directory connect succeeded, the local endpoint is bound only after the
\* lookup returned a peer address, the handshake is sent only after the bind
\* and after the hole-punch attempt, and the state becomes Connected only
\* after a successful handshake response was received in that same call.
C33_PhaseOrder ==
    \A o \in live :
        LET h == reached[o]
            s == Started(o)
            Earlier(i, rs) == \E j \in 1..(i - 1) : h[j] \in rs
        IN  /\ \A i \in 1..Len(s) :
                  /\ s[i] = "request_connection" => Earlier(i, {<<"id_connect", "Ok">>})
                  /\ s[i] = "bind" => Earlier(i, {<<"request_connection", "Ok">>})
                  /\ s[i] = "handshake"
                        => /\ Earlier(i, {<<"bind", "Ok">>})
                           /\ Earlier(i, {<<"punch_hole", r>> : r \in PunchHoleOutcomes})
            /\ sess[o].state = "Connected"
                  => \E j \in 1..Len(h) : h[j] = <<"handshake", "Ok">>
\* a connect went through every phase and wrote Connected
C33_Witness ==
    \E o \in live :
        /\ spc[o] = "idle" /\ last_call[o].method = "connect" /\ sres[o].ok
        /\ sess[o].state = "Connected"
        /\ Started(o) = <<"id_connect", "request_connection", "bind", "local_addr",
                          "punch_hole", "handshake", "try_clone">>

\* the program points inside connect
ConnectPcs ==
    {"c_begin", "c_failed", "c_write_1", "c_write_2", "c_write_3", "c_write_4",
     "c_write_5"} \cup DOMAIN AwaitedAt

\* C34: every connect call terminates: given that the 10-second response
\* time-outs fire, a session that entered Connecting eventually reaches
\* Connected or Failed and the call returns, even if the directory service and
\* the peer never answer.
C34_ConnectTerminates ==
    \A o \in Objs :
        (o \in live /\ spc[o] \in ConnectPcs /\ sess[o].state = "Connecting")
            ~> (spc[o] = "idle" /\ sess[o].state \in {"Connected", "Failed"})

\* the tasks holding a guard
Holders == ({conns_guard, streams_guard} \cup {conn_guard[o] : o \in Objs}) \ {NoTask}

\* the holder of the guard the next step of t locks
WaitsFor(t) ==
    (CASE pc[t] \in {"m_connecting", "x_conns"} -> {conns_guard}
       [] pc[t] \in {"m_streams", "a_next"} -> {streams_guard}
       [] pc[t] \in {"x_lock_conn", "k_lock_conn"} -> {conn_guard[conn[t]]}
       [] OTHER -> {}) \ {NoTask}

\* the call of t, or the session method it awaits, can take its next step
CanStep(t) ==
    \/ ENABLED (\/ CoreConnected(t) \/ CoreStartVideo(t) \/ CoreInsertStream(t)
                \/ CoreStopStream(t) \/ CoreRemoveConn(t) \/ CoreLockConn(t)
                \/ CoreDisconnected(t) \/ CoreNextId(t) \/ CoreSendLock(t)
                \/ CoreSent(t))
    \/ /\ pc[t] \in {"m_connecting", "x_disconnecting", "k_sending"}
       /\ ENABLED SessionRun(conn[t])

\* C35: the registry is deadlock-free: under any interleaving of concurrent
\* connect, disconnect, disconnect_all, send_key, send_mouse_move,
\* send_mouse_click and get_connections calls on one CoreManager no set of
\* tasks waits forever on the guards: every guard is held by a call in
\* progress, and in every set of calls in progress one can take a step or
\* waits for a guard held outside the set.
C35_DeadlockFree ==
    /\ \A t \in Holders : InFlight(t)
    /\ \A S \in SUBSET {t \in Tasks : InFlight(t)} \ {{}} :
          \E t \in S : CanStep(t) \/ (WaitsFor(t) # {} /\ WaitsFor(t) \cap S = {})
\* a disconnect waits for the sessions-map guard that a send holds across its
\* network step
C35_Witness ==
    \E t, u \in Tasks :
        /\ pc[t] = "x_conns" /\ ~CanStep(t) /\ WaitsFor(t) = {u}
        /\ pc[u] = "k_sending" /\ CanStep(u)

\* C36: embedding entry points are mutually exclusive: each entry point holds
\* the process-wide manager guard from its start until it returns, so while
\* one entry call is in progress no other entry point reads or changes the
\* registry, and no two connects run concurrently through the embedding API.
C36_EntriesExclusive ==
    /\ \A h, k \in Tasks : host[h] # "none" /\ host[k] # "none" => h = k
    /\ \A h \in Tasks : host[h] # "none" <=> manager_guard = h
    /\ \A t \in Tasks : pc[t] # "idle" => host[t] # "none"
    /\ Cardinality({t \in Tasks : op[t] = "connect" /\ pc[t] # "idle"}) <= 1
\* a connect waits for the handshake response while the registry holds a
\* session and the other thread is outside every entry point
C36_Witness ==
    \E h, k \in Tasks :
        /\ host[h] = "connect" /\ pc[h] = "m_connecting"
        /\ spc[conn[h]] = "c_handshake"
        /\ host[k] = "none" /\ pc[k] = "idle"
        /\ connections # EmptyMap

\* C37: the authenticated handshake succeeds only on a HandshakeResponse sent
\* by the peer address it was given: a datagram arriving on the endpoint from
\* any other source address never makes perform_handshake return success and
\* never causes the shared secret to be stored.
C37_Step ==
    (pcall'.fn = "perform_handshake" /\ pcall'.reply.kind = "datagram"
        /\ pcall'.reply.from = "other")
        => ~pcall'.result.ok /\ shared_secret' = shared_secret
C37_PeerOnly == [][C37_Step]_vars

\* C38: request_connection is total on responses: for every datagram received
\* from the directory (an undecodable datagram, a packet of another type and a
\* ConnectionResponse with an empty payload included) it returns either a
\* peer address or one of the typed errors Io, HandshakeFailed, Timeout,
\* PeerNotFound, and never aborts abnormally.
C38_Total ==
    (pcall.fn = "request_connection" /\ pcall.reply.kind = "datagram")
        => \/ pcall.result.ok
           \/ pcall.result.kind \in {"Io", "HandshakeFailed", "Timeout", "PeerNotFound"}

\* the step is a call of handle_packet
Handled == hcall'.n # hcall.n

\* C39: the inbound frame queue never holds more than 100 frames:
\* handle_packet on a VideoFrame packet pushes without blocking, and when the
\* queue is full the arriving frame is dropped, the call still returns Ok and
\* the queued frames are unchanged and remain in arrival order; a VideoFrame
\* payload shorter than 12 bytes fails with InvalidPacket and enqueues
\* nothing, and packets of any other type enqueue nothing.
C39_Step ==
    /\ Len(channel'.frames) <= 100
    /\ Handled =>
        LET p == hcall'.packet
            queued == channel.frames
        IN  IF p.msg_type # VideoFrameType
                THEN hcall'.outcome = "Ok" /\ channel' = channel
            ELSE IF len(p.payload) < 12
                THEN hcall'.outcome = "InvalidPacket" /\ channel' = channel
            ELSE /\ hcall'.outcome = "Ok"
                 /\ IF Len(queued) = 100 THEN channel' = channel
                    ELSE channel.open =>
                            channel'.frames = Append(queued, ParseFrame(p.payload))
Last(q, n) == SubSeq(q, Len(q) - n + 1, Len(q))
Min(a, b) == IF a < b THEN a ELSE b

\* C40: frame-buffer eviction is FIFO: after k pushes (with no clear) into a
\* FrameBuffer of capacity N >= 1 the buffer holds exactly the last min(k, N)
\* pushed frames in push order; a push at capacity removes exactly the oldest
\* frame; get_latest does not change the buffer; clear leaves it empty so
\* that get_latest returns nothing.
C40_Step ==
    buffer.max_size >= 1 =>
        /\ buffer'.frames = Last(pushes', Min(Len(pushes'), buffer'.max_size))
        /\ (Len(pushes') = Len(pushes) + 1 /\ Len(buffer.frames) = buffer.max_size)
              => buffer'.frames = Append(Tail(buffer.frames), bcall'.frame)
        /\ bcall'.fn = "get_latest" => buffer' = buffer
        /\ bcall'.fn = "clear" => buffer'.frames = <<>> /\ get_latest(buffer') = None
C40_Fifo == [][C40_Step]_vars
\* more frames were pushed than the buffer holds, then get_latest was called
C40_Witness ==
    /\ buffer.max_size >= 2
    /\ Len(pushes) > buffer.max_size + 1
    /\ bcall.fn = "get_latest" /\ bcall.outcome = "Some"
    /\ buffer.frames[1] # buffer.frames[2]

====
